---- MODULE Spec2Model ----
(***************************************************************************)
(* A model of the drlang expression language: tokenize -> parse_line ->    *)
(* evaluate (with resolve_reference and the function registry), as         *)
(* implemented in src/src/drlang/language.py and src/src/drlang/functions.py *)
(*                                                                         *)
(* Python strings are sequences of one-character strings.  Python values,  *)
(* tokens, parse-tree nodes and call outcomes are records of one fixed     *)
(* shape each, so that any two of them can be compared.                    *)
(***************************************************************************)
EXTENDS Integers, Sequences, FiniteSets, TLC

(***************************************************************************)
(* str helpers                                                             *)
(***************************************************************************)
Whitespace == {" ", "\t", "\n", "\r"}
Digit == {"0", "1", "2", "3", "4", "5", "6", "7", "8", "9"}
Letter ==
  {"a", "b", "c", "d", "e", "f", "g", "h", "i", "j", "k", "l", "m",
   "n", "o", "p", "q", "r", "s", "t", "u", "v", "w", "x", "y", "z",
   "A", "B", "C", "D", "E", "F", "G", "H", "I", "J", "K", "L", "M",
   "N", "O", "P", "Q", "R", "S", "T", "U", "V", "W", "X", "Y", "Z"}

isspace(c) == c \in Whitespace
isdigit(c) == c \in Digit
isalpha(c) == c \in Letter
isalnum(c) == c \in Letter \cup Digit

\* s[i:j] with 0-based i, j as in Python (clamped to the string)
Slice(s, i, j) ==
  LET lo == IF i < 0 THEN 0 ELSE i
      hi == IF j > Len(s) THEN Len(s) ELSE j
  IN IF hi <= lo THEN <<>> ELSE SubSeq(s, lo + 1, hi)

\* sub in s  (Python substring test)
InStr(sub, s) ==
  \E i \in 0..Len(s) : Slice(s, i, i + Len(sub)) = sub

\* c in s for a one-character c
CharIn(c, s) == \E i \in 1..Len(s) : s[i] = c

RECURSIVE lstrip(_)
lstrip(s) ==
  IF s = <<>> THEN s
  ELSE IF isspace(Head(s)) THEN lstrip(Tail(s)) ELSE s

RECURSIVE rstrip(_)
rstrip(s) ==
  IF s = <<>> THEN s
  ELSE IF isspace(s[Len(s)]) THEN rstrip(SubSeq(s, 1, Len(s) - 1)) ELSE s

strip(s) == rstrip(lstrip(s))

\* s.split(d) for a non-empty separator d: the list of pieces
RECURSIVE SplitFrom(_, _, _, _)
SplitFrom(s, d, i, cur) ==
  IF i >= Len(s) THEN <<cur>>
  ELSE IF Slice(s, i, i + Len(d)) = d
       THEN <<cur>> \o SplitFrom(s, d, i + Len(d), <<>>)
       ELSE SplitFrom(s, d, i + 1, Append(cur, s[i + 1]))

split(s, d) == SplitFrom(s, d, 0, <<>>)

\* d.join(parts)
RECURSIVE join(_, _)
join(d, parts) ==
  IF parts = <<>> THEN <<>>
  ELSE IF Len(parts) = 1 THEN parts[1]
  ELSE parts[1] \o d \o join(d, Tail(parts))

DigitVal(c) ==
  CASE c = "0" -> 0 [] c = "1" -> 1 [] c = "2" -> 2 [] c = "3" -> 3
    [] c = "4" -> 4 [] c = "5" -> 5 [] c = "6" -> 6 [] c = "7" -> 7
    [] c = "8" -> 8 [] OTHER -> 9

RECURSIVE DigitsVal(_, _)
DigitsVal(s, acc) ==
  IF s = <<>> THEN acc
  ELSE IF Head(s) = "_" THEN DigitsVal(Tail(s), acc)
  ELSE DigitsVal(Tail(s), 10 * acc + DigitVal(Head(s)))

\* int(s) that takes no sign
PyInt_no_sign(s0) ==
  LET s == strip(s0)
  IN IF s # <<>> /\ \A i \in 1..Len(s) : isdigit(s[i])
     THEN [ok |-> TRUE, v |-> DigitsVal(s, 0)]
     ELSE [ok |-> FALSE, v |-> 0]

\* int(s) on a str: optional surrounding whitespace, optional sign, digits
\* (single underscores between digits allowed); anything else is ValueError
PyInt(s0) ==
  LET s == strip(s0)
      signed == s # <<>> /\ Head(s) \in {"+", "-"}
      body == IF signed THEN Tail(s) ELSE s
      wellformed ==
        /\ body # <<>>
        /\ \A i \in 1..Len(body) : isdigit(body[i]) \/ body[i] = "_"
        /\ body[1] # "_" /\ body[Len(body)] # "_"
        /\ \A i \in 1..(Len(body) - 1) : ~(body[i] = "_" /\ body[i + 1] = "_")
      mag == DigitsVal(body, 0)
  IN IF wellformed
     THEN [ok |-> TRUE, v |-> IF signed /\ Head(s) = "-" THEN 0 - mag ELSE mag]
     ELSE [ok |-> FALSE, v |-> 0]

(***************************************************************************)
(* DRLConfig and Token                                                     *)
(***************************************************************************)
\* A DRLConfig as the pipeline reads it; custom_functions is the mapping the
\* config object points to at the time of the call.
Config(ref_indicator, key_delimiter, custom_functions) ==
  [ref_indicator |-> ref_indicator, key_delimiter |-> key_delimiter,
   custom_functions |-> custom_functions, drop_empty |-> FALSE]

NoFunctions == [n \in {} |-> ""]

DEFAULT_CONFIG == Config(<<"$">>, <<">">>, NoFunctions)

Token(type, value, behavior) ==
  [k |-> "Token", type |-> type, value |-> value, behavior |-> behavior,
   items |-> <<>>]

\* result of tokenize: the token list, or a DRLSyntaxError with its position
TokOk(tokens) == [exc |-> "", tokens |-> tokens, position |-> -1]
TokErr_at_start(position) ==
  [exc |-> "DRLSyntaxError", tokens |-> <<>>, position |-> 0]

TokErr(position) == [exc |-> "DRLSyntaxError", tokens |-> <<>>, position |-> position]

(***************************************************************************)
(* tokenize                                                                *)
(***************************************************************************)
base_stop_chars ==
  <<"(", ")", ",", "'", "\"", "+", "-", "*", "/", "%", "^", "<", ">", "=",
    "!", "[", "]", "{", "}">>
cmp_follow_chars ==
  <<"=", "!", "<", ">", "(", ")", ",", "'", "\"", "+", "-", "*", "/", "%", "^">>

\* "".join(c for c in base_stop_chars if c != key_delimiter) + ref_indicator
StopChars(config) ==
  SelectSeq(base_stop_chars, LAMBDA c : <<c>> # config.key_delimiter)
    \o config.ref_indicator

\* index of the first non-space character at or after j (Len(e) if none)
RECURSIVE SkipSpaces(_, _)
SkipSpaces(e, j) ==
  IF j < Len(e) /\ isspace(e[j + 1]) THEN SkipSpaces(e, j + 1) ELSE j

\* a test that knows whitespace and the end of input only
DelimiterIsComparison_space_only(e, config, i) ==
  /\ <<e[i + 1]>> = config.key_delimiter
  /\ InStr(config.key_delimiter, <<"<", ">", "=">>)
  /\ \/ i + 1 >= Len(e)
     \/ isspace(e[i + 2])

\* the key delimiter at index i is read as a comparison operator
DelimiterIsComparison(e, config, i) ==
  /\ <<e[i + 1]>> = config.key_delimiter
  /\ InStr(config.key_delimiter, <<"<", ">", "=">>)
  /\ \/ i + 1 >= Len(e)
     \/ isspace(e[i + 2])
     \/ CharIn(e[i + 2], cmp_follow_chars)

\* a whole-word keyword kw starts at index j
KeywordAt(e, j, kw) ==
  /\ j + Len(kw) <= Len(e)
  /\ Slice(e, j, j + Len(kw)) = kw
  /\ (j + Len(kw) = Len(e) \/ ~isalnum(e[j + Len(kw) + 1]))

\* the space at index i ends a bare reference
SpaceEndsReference(e, config, i) ==
  LET j == SkipSpaces(e, i + 1)
  IN /\ j < Len(e)
     /\ \/ CharIn(e[j + 1], StopChars(config))
        \/ DelimiterIsComparison(e, config, j)
        \/ KeywordAt(e, j, <<"a", "n", "d">>)
        \/ KeywordAt(e, j, <<"n", "o", "t">>)
        \/ KeywordAt(e, j, <<"o", "r">>)

\* index at which the scan of a bare reference stops
RECURSIVE BareReferenceEnd(_, _, _)
BareReferenceEnd(e, config, i) ==
  IF i >= Len(e) THEN i
  ELSE IF DelimiterIsComparison(e, config, i) THEN i
  ELSE IF CharIn(e[i + 1], StopChars(config)) THEN i
  ELSE IF isspace(e[i + 1]) /\ SpaceEndsReference(e, config, i) THEN i
  ELSE BareReferenceEnd(e, config, i + 1)

\* index of the first occurrence of character c at or after i (Len(e) if none)
RECURSIVE FindChar(_, _, _)
FindChar(e, c, i) ==
  IF i >= Len(e) THEN Len(e)
  ELSE IF e[i + 1] = c THEN i ELSE FindChar(e, c, i + 1)

\* scan of a string literal body: [closed, end (index of closing quote), string]
RECURSIVE StringScan(_, _, _, _)
StringScan(e, quote, i, string) ==
  IF i >= Len(e) THEN [closed |-> FALSE, end |-> i, string |-> string]
  ELSE IF e[i + 1] = quote THEN [closed |-> TRUE, end |-> i, string |-> string]
  ELSE IF e[i + 1] = "\\" /\ i + 1 < Len(e)
       THEN StringScan(e, quote, i + 2, Append(string, e[i + 2]))
       ELSE StringScan(e, quote, i + 1, Append(string, e[i + 1]))

RECURSIVE NumberEnd(_, _, _)
NumberEnd(e, i, has_dot) ==
  IF i < Len(e) /\ (isdigit(e[i + 1]) \/ (e[i + 1] = "." /\ ~has_dot))
  THEN NumberEnd(e, i + 1, has_dot \/ e[i + 1] = ".")
  ELSE i

RECURSIVE NameEnd(_, _)
NameEnd(e, i) ==
  IF i < Len(e) /\ (isalnum(e[i + 1]) \/ e[i + 1] = "_")
  THEN NameEnd(e, i + 1) ELSE i

Closer_always_paren(c) == ")"

Closer(c) == CASE c = "(" -> ")" [] c = "[" -> "]" [] OTHER -> "}"
Behavior(c) ==
  CASE c = "(" -> "required" [] c = "[" -> "optional" [] OTHER -> "passthrough"

RECURSIVE TokenizeFrom(_, _, _, _)
TokenizeFrom(e, config, i, tokens) ==
  IF i >= Len(e) THEN TokOk(tokens)
  ELSE
  LET c == e[i + 1] IN
  IF isspace(c) THEN TokenizeFrom(e, config, i + 1, tokens)
  ELSE IF <<c>> = config.ref_indicator THEN
    IF i + 1 < Len(e) /\ e[i + 2] \in {"(", "[", "{"}
    THEN LET close == FindChar(e, Closer(e[i + 2]), i + 2)
         IN IF close >= Len(e) THEN TokErr(i)
            ELSE TokenizeFrom(e, config, close + 1,
                   Append(tokens, Token("REFERENCE",
                                        strip(Slice(e, i + 2, close)),
                                        Behavior(e[i + 2]))))
    ELSE LET stop == BareReferenceEnd(e, config, i + 1)
         IN TokenizeFrom(e, config, stop,
              Append(tokens, Token("REFERENCE", strip(Slice(e, i + 1, stop)),
                                   "required")))
  ELSE IF c \in {"\"", "'"} THEN
    LET sc == StringScan(e, c, i + 1, <<>>)
    IN IF ~sc.closed THEN TokErr(i)
       ELSE TokenizeFrom(e, config, sc.end + 1,
              Append(tokens, Token("STRING", sc.string, "required")))
  ELSE IF c = "(" THEN
    TokenizeFrom(e, config, i + 1, Append(tokens, Token("LPAREN", <<c>>, "required")))
  ELSE IF c = ")" THEN
    TokenizeFrom(e, config, i + 1, Append(tokens, Token("RPAREN", <<c>>, "required")))
  ELSE IF c = "," THEN
    TokenizeFrom(e, config, i + 1, Append(tokens, Token("COMMA", <<c>>, "required")))
  ELSE IF c \in {"+", "-", "*", "/", "^", "%"} THEN
    TokenizeFrom(e, config, i + 1, Append(tokens, Token("OPERATOR", <<c>>, "required")))
  ELSE IF i + 1 < Len(e)
          /\ Slice(e, i, i + 2) \in {<<"=", "=">>, <<"!", "=">>, <<"<", "=">>, <<">", "=">>}
  THEN
    TokenizeFrom(e, config, i + 2,
      Append(tokens, Token("COMPARISON", Slice(e, i, i + 2), "required")))
  ELSE IF c \in {"<", ">"} THEN
    TokenizeFrom(e, config, i + 1, Append(tokens, Token("COMPARISON", <<c>>, "required")))
  ELSE IF c = "!" THEN TokErr(i)
  ELSE IF isdigit(c) \/ (c = "." /\ i + 1 < Len(e) /\ isdigit(e[i + 2])) THEN
    LET stop == NumberEnd(e, i, FALSE)
    IN TokenizeFrom(e, config, stop,
         Append(tokens, Token("NUMBER", Slice(e, i, stop), "required")))
  ELSE IF isalpha(c) \/ c = "_" THEN
    LET stop == NameEnd(e, i)
        name == Slice(e, i, stop)
        j == SkipSpaces(e, stop)
        type ==
          IF name \in {<<"T", "r", "u", "e">>, <<"F", "a", "l", "s", "e">>} THEN "BOOLEAN"
          ELSE IF name \in {<<"a", "n", "d">>, <<"o", "r">>} THEN "LOGICAL"
          ELSE IF name = <<"n", "o", "t">> THEN "NOT"
          ELSE IF j < Len(e) /\ e[j + 1] = "(" THEN "FUNCTION"
          ELSE "IDENTIFIER"
    IN TokenizeFrom(e, config, stop, Append(tokens, Token(type, name, "required")))
  ELSE TokErr(i)

tokenize(expression, config) == TokenizeFrom(expression, config, 0, <<>>)

(***************************************************************************)
(* parse_line                                                              *)
(*                                                                         *)
(* The parse tree is a Token, or a Python list whose first element is a    *)
(* str: ['OPERATOR', op, left, right], ['COMPARISON', op, left, right],    *)
(* ['LOGICAL', op, left, right], ['NOT', operand], [func_name, arg, ...].  *)
(***************************************************************************)
PyStr(s) ==
  [k |-> "str", type |-> "", value |-> s, behavior |-> "", items |-> <<>>]
PyList(items) ==
  [k |-> "list", type |-> "", value |-> <<>>, behavior |-> "", items |-> items]
PyNone ==
  [k |-> "NoneType", type |-> "", value |-> <<>>, behavior |-> "", items |-> <<>>]

OPERATOR == <<"O", "P", "E", "R", "A", "T", "O", "R">>
COMPARISON == <<"C", "O", "M", "P", "A", "R", "I", "S", "O", "N">>
LOGICAL == <<"L", "O", "G", "I", "C", "A", "L">>
NOT == <<"N", "O", "T">>

\* result of a parsing function: the node and the next token index, or a
\* DRLSyntaxError
Parsed(node, pos) == [exc |-> "", node |-> node, pos |-> pos, position |-> -1]
ParseErr(position) ==
  [exc |-> "DRLSyntaxError", node |-> PyNone, pos |-> 0, position |-> position]

\* precedence.get(op, 999)
precedence_swapped(op) ==
  CASE op = <<"^">> -> 3
    [] op \in {<<"*">>, <<"/">>, <<"%">>} -> 2
    [] op \in {<<"+">>, <<"-">>} -> 1
    [] op \in {<<"<">>, <<">">>, <<"<", "=">>, <<">", "=">>} -> 5
    [] op \in {<<"=", "=">>, <<"!", "=">>} -> 4
    [] op = <<"n", "o", "t">> -> 6
    [] op = <<"a", "n", "d">> -> 8
    [] op = <<"o", "r">> -> 7
    [] OTHER -> 999

precedence(op) ==
  CASE op = <<"^">> -> 1
    [] op \in {<<"*">>, <<"/">>, <<"%">>} -> 2
    [] op \in {<<"+">>, <<"-">>} -> 3
    [] op \in {<<"<">>, <<">">>, <<"<", "=">>, <<">", "=">>} -> 4
    [] op \in {<<"=", "=">>, <<"!", "=">>} -> 5
    [] op = <<"n", "o", "t">> -> 6
    [] op = <<"a", "n", "d">> -> 7
    [] op = <<"o", "r">> -> 8
    [] OTHER -> 999

\* the min_precedence handed to the parse of a binary operator's right side
RightMinPrecedence(op_precedence) == op_precedence + 1

NodeTag(token_type) ==
  CASE token_type = "COMPARISON" -> COMPARISON
    [] token_type = "LOGICAL" -> LOGICAL
    [] OTHER -> OPERATOR

RECURSIVE parse_expression_with_precedence(_, _, _, _)
RECURSIVE ParseOperators(_, _, _, _, _)
RECURSIVE parse_primary(_, _, _)
RECURSIVE ParseArguments(_, _, _, _, _)

\* n is len(original_line), used for error positions
parse_expression_with_precedence(tokens, start, min_precedence, n) ==
  LET first ==
        IF start < Len(tokens) /\ tokens[start + 1].type = "NOT"
        THEN LET r == parse_expression_with_precedence(
                        tokens, start + 1, precedence(<<"n", "o", "t">>) + 1, n)
             IN IF r.exc # "" THEN r
                ELSE Parsed(PyList(<<PyStr(NOT), r.node>>), r.pos)
        ELSE parse_primary(tokens, start, n)
  IN IF first.exc # "" THEN first
     ELSE ParseOperators(tokens, first.node, first.pos, min_precedence, n)

\* the while loop of parse_expression_with_precedence
ParseOperators(tokens, left, start, min_precedence, n) ==
  IF start >= Len(tokens) THEN Parsed(left, start)
  ELSE
  LET token_type == tokens[start + 1].type
      op == tokens[start + 1].value
      op_precedence == precedence(op)
  IN IF token_type \notin {"OPERATOR", "COMPARISON", "LOGICAL"}
     THEN Parsed(left, start)
     ELSE IF op_precedence >= min_precedence THEN Parsed(left, start)
     ELSE LET r == parse_expression_with_precedence(
                     tokens, start + 1, RightMinPrecedence(op_precedence), n)
          IN IF r.exc # "" THEN r
             ELSE ParseOperators(
                    tokens,
                    PyList(<<PyStr(NodeTag(token_type)), PyStr(op), left, r.node>>),
                    r.pos, min_precedence, n)

parse_primary(tokens, start, n) ==
  IF start >= Len(tokens) THEN ParseErr(n - 1)
  ELSE
  LET token == tokens[start + 1] IN
  IF token.type = "LPAREN" THEN
    LET r == parse_expression_with_precedence(tokens, start + 1, 999, n)
    IN IF r.exc # "" THEN r
       ELSE IF r.pos >= Len(tokens) \/ tokens[r.pos + 1].type # "RPAREN"
       THEN ParseErr(n - 1)
       ELSE Parsed(r.node, r.pos + 1)
  ELSE IF token.type = "FUNCTION" THEN
    IF start + 1 >= Len(tokens) \/ tokens[start + 2].type # "LPAREN"
    THEN ParseErr(-1)
    ELSE ParseArguments(tokens, token.value, start + 2, <<>>, n)
  ELSE Parsed(token, start + 1)

\* the argument loop of a function call and its closing parenthesis
ParseArguments(tokens, func_name, start, args, n) ==
  IF start < Len(tokens) /\ tokens[start + 1].type # "RPAREN"
  THEN IF tokens[start + 1].type = "COMMA"
       THEN ParseArguments(tokens, func_name, start + 1, args, n)
       ELSE LET r == parse_expression_with_precedence(tokens, start, 999, n)
            IN IF r.exc # "" THEN r
               ELSE ParseArguments(tokens, func_name, r.pos, Append(args, r.node), n)
  ELSE IF start >= Len(tokens) THEN ParseErr(n - 1)
  ELSE Parsed(PyList(<<PyStr(func_name)>> \o args), start + 1)

parse_line(line, config) ==
  LET t == tokenize(line, config)
  IN IF t.exc # "" THEN ParseErr(t.position)
     ELSE IF t.tokens = <<>> THEN Parsed(PyNone, 0)
     ELSE IF Len(t.tokens) = 1
             /\ t.tokens[1].type \in {"REFERENCE", "NUMBER", "BOOLEAN"}
     THEN Parsed(t.tokens[1], 1)
     ELSE parse_expression_with_precedence(t.tokens, 0, 999, Len(line))

(***************************************************************************)
(* Python values                                                           *)
(*                                                                         *)
(* t is the type name; an int or bool is i (j = 1); a float is the         *)
(* rational i/j in lowest terms with j > 0, or j = 0 for a result that is  *)
(* not rational (a non-integer power); s is the text of a str; l the       *)
(* elements of a list; d the items of a dict in insertion order.           *)
(***************************************************************************)
Val(t, i, j, s, l, d) == [t |-> t, i |-> i, j |-> j, s |-> s, l |-> l, d |-> d]
IntV(n) == Val("int", n, 1, <<>>, <<>>, <<>>)
BoolV(b) == Val("bool", IF b THEN 1 ELSE 0, 1, <<>>, <<>>, <<>>)
StrV(s) == Val("str", 0, 1, s, <<>>, <<>>)
NoneV == Val("NoneType", 0, 1, <<>>, <<>>, <<>>)
ListV(l) == Val("list", 0, 1, <<>>, l, <<>>)
DictV(d) == Val("dict", 0, 1, <<>>, <<>>, d)
Item(key, val) == [key |-> key, val |-> val]
Irrational == Val("float", 0, 0, <<>>, <<>>, <<>>)
ComplexV == Val("complex", 0, 0, <<>>, <<>>, <<>>)

Abs(n) == IF n < 0 THEN 0 - n ELSE n

RECURSIVE GCD(_, _)
GCD(a, b) == IF b = 0 THEN a ELSE GCD(b, a % b)

\* the float n/d (d # 0) in lowest terms
FloatV(n, d) ==
  LET g == GCD(Abs(n), Abs(d))
      sgn == IF d < 0 THEN -1 ELSE 1
  IN Val("float", sgn * (n \div g), sgn * (d \div g), <<>>, <<>>, <<>>)

IsNumber(v) == v.t \in {"int", "bool", "float"}
IsExact(v) == IsNumber(v) /\ v.j # 0
IsIntegral(v) == v.t \in {"int", "bool"}

\* key in d, d[key]
DictHas(v, key) == \E n \in 1..Len(v.d) : v.d[n].key = key
DictGet(v, key) == v.d[CHOOSE n \in 1..Len(v.d) : v.d[n].key = key].val

\* a result of an operation on values: the value, or the host exception
Ret(val) == [exc |-> "", val |-> val]
Raise(exc) == [exc |-> exc, val |-> NoneV]

\* bool(v)
Truthy(v) ==
  CASE v.t \in {"int", "bool"} -> v.i # 0
    [] v.t = "float" -> (v.j = 0 \/ v.i # 0)
    [] v.t = "str" -> v.s # <<>>
    [] v.t = "list" -> v.l # <<>>
    [] v.t = "dict" -> v.d # <<>>
    [] v.t = "NoneType" -> FALSE
    [] OTHER -> TRUE

CharOrder ==
  <<"\t", "\n", "\r", " ", "!", "\"", "#", "$", "%", "&", "'", "(", ")",
    "*", "+", ",", "-", ".", "/", "0", "1", "2", "3", "4", "5", "6", "7",
    "8", "9", ":", ";", "<", "=", ">", "?", "@", "A", "B", "C", "D", "E",
    "F", "G", "H", "I", "J", "K", "L", "M", "N", "O", "P", "Q", "R", "S",
    "T", "U", "V", "W", "X", "Y", "Z", "[", "\\", "]", "^", "_", "a",
    "b", "c", "d", "e", "f", "g", "h", "i", "j", "k", "l", "m", "n", "o",
    "p", "q", "r", "s", "t", "u", "v", "w", "x", "y", "z", "{", "|", "}",
    "~">>

Ord(c) == CHOOSE n \in 1..Len(CharOrder) : CharOrder[n] = c

\* s < t for two str
RECURSIVE StrLess(_, _)
StrLess(s, t) ==
  IF t = <<>> THEN FALSE
  ELSE IF s = <<>> THEN TRUE
  ELSE IF Head(s) = Head(t) THEN StrLess(Tail(s), Tail(t))
  ELSE Ord(Head(s)) < Ord(Head(t))

\* a == b
RECURSIVE PyEq(_, _)
PyEq(a, b) ==
  IF IsNumber(a) /\ IsNumber(b)
  THEN a.j # 0 /\ b.j # 0 /\ a.i * b.j = b.i * a.j
  ELSE IF a.t # b.t THEN FALSE
  ELSE CASE a.t = "str" -> a.s = b.s
         [] a.t = "NoneType" -> TRUE
         [] a.t = "list" ->
              /\ Len(a.l) = Len(b.l)
              /\ \A n \in 1..Len(a.l) : PyEq(a.l[n], b.l[n])
         [] a.t = "dict" ->
              /\ Len(a.d) = Len(b.d)
              /\ \A n \in 1..Len(a.d) :
                   /\ DictHas(b, a.d[n].key)
                   /\ PyEq(a.d[n].val, DictGet(b, a.d[n].key))
         [] OTHER -> FALSE

\* a < b: the truth value, or TypeError
RECURSIVE PyLess(_, _)
PyLess(a, b) ==
  IF IsNumber(a) /\ IsNumber(b)
  THEN Ret(BoolV(a.j # 0 /\ b.j # 0 /\ a.i * b.j < b.i * a.j))
  ELSE IF a.t = "str" /\ b.t = "str" THEN Ret(BoolV(StrLess(a.s, b.s)))
  ELSE IF a.t = "list" /\ b.t = "list"
  THEN LET differ == {n \in 1..Len(a.l) : n <= Len(b.l) /\ ~PyEq(a.l[n], b.l[n])}
       IN IF differ = {} THEN Ret(BoolV(Len(a.l) < Len(b.l)))
          ELSE LET n == CHOOSE m \in differ : \A o \in differ : m <= o
               IN PyLess(a.l[n], b.l[n])
  ELSE Raise("TypeError")

\* a % b on integers with b # 0: the sign of the result follows b
PyMod(a, b) == IF b > 0 THEN a % b ELSE 0 - ((0 - a) % (0 - b))

RECURSIVE IntPow(_, _)
IntPow(b, n) == IF n = 0 THEN 1 ELSE b * IntPow(b, n - 1)

RECURSIVE Repeat(_, _)
Repeat(seq, n) == IF n <= 0 THEN <<>> ELSE seq \o Repeat(seq, n - 1)

NumType(a, b) == IF a.t = "float" \/ b.t = "float" THEN "float" ELSE "int"
NumV(t, n, d) == IF t = "float" THEN FloatV(n, d) ELSE IntV(n \div d)

\* left + right
PyAdd(a, b) ==
  IF IsNumber(a) /\ IsNumber(b)
  THEN IF ~(IsExact(a) /\ IsExact(b)) THEN Ret(Irrational)
       ELSE Ret(NumV(NumType(a, b), a.i * b.j + b.i * a.j, a.j * b.j))
  ELSE IF a.t = "complex" /\ (IsNumber(b) \/ b.t = "complex") THEN Ret(ComplexV)
  ELSE IF b.t = "complex" /\ IsNumber(a) THEN Ret(ComplexV)
  ELSE IF a.t = "str" /\ b.t = "str" THEN Ret(StrV(a.s \o b.s))
  ELSE IF a.t = "list" /\ b.t = "list" THEN Ret(ListV(a.l \o b.l))
  ELSE Raise("TypeError")

\* left - right
PySub(a, b) ==
  IF IsNumber(a) /\ IsNumber(b)
  THEN IF ~(IsExact(a) /\ IsExact(b)) THEN Ret(Irrational)
       ELSE Ret(NumV(NumType(a, b), a.i * b.j - b.i * a.j, a.j * b.j))
  ELSE IF a.t = "complex" /\ (IsNumber(b) \/ b.t = "complex") THEN Ret(ComplexV)
  ELSE IF b.t = "complex" /\ IsNumber(a) THEN Ret(ComplexV)
  ELSE Raise("TypeError")

\* left * right
PyMul(a, b) ==
  IF IsNumber(a) /\ IsNumber(b)
  THEN IF ~(IsExact(a) /\ IsExact(b)) THEN Ret(Irrational)
       ELSE Ret(NumV(NumType(a, b), a.i * b.i, a.j * b.j))
  ELSE IF a.t = "complex" /\ (IsNumber(b) \/ b.t = "complex") THEN Ret(ComplexV)
  ELSE IF b.t = "complex" /\ IsNumber(a) THEN Ret(ComplexV)
  ELSE IF a.t = "str" /\ IsIntegral(b) THEN Ret(StrV(Repeat(a.s, b.i)))
  ELSE IF IsIntegral(a) /\ b.t = "str" THEN Ret(StrV(Repeat(b.s, a.i)))
  ELSE IF a.t = "list" /\ IsIntegral(b) THEN Ret(ListV(Repeat(a.l, b.i)))
  ELSE IF IsIntegral(a) /\ b.t = "list" THEN Ret(ListV(Repeat(b.l, a.i)))
  ELSE Raise("TypeError")

\* right == 0
IsZero(v) == PyEq(v, IntV(0))

\* left / right
PyDiv(a, b) ==
  IF IsNumber(a) /\ IsNumber(b)
  THEN IF ~(IsExact(a) /\ IsExact(b)) THEN Ret(Irrational)
       ELSE IF b.i = 0 THEN Raise("ZeroDivisionError")
       ELSE Ret(FloatV(a.i * b.j, a.j * b.i))
  ELSE IF a.t = "complex" /\ (IsNumber(b) \/ b.t = "complex")
  THEN IF IsZero(b) THEN Raise("ZeroDivisionError") ELSE Ret(ComplexV)
  ELSE IF b.t = "complex" /\ IsNumber(a) THEN Ret(ComplexV)
  ELSE Raise("TypeError")

\* left % right; on a str left this is printf-style formatting of a format
\* without conversion specifiers: right may only be a mapping or a list
PyModulo(a, b) ==
  IF IsNumber(a) /\ IsNumber(b)
  THEN IF ~(IsExact(a) /\ IsExact(b)) THEN Ret(Irrational)
       ELSE IF b.i = 0 THEN Raise("ZeroDivisionError")
       ELSE Ret(NumV(NumType(a, b), PyMod(a.i * b.j, b.i * a.j), a.j * b.j))
  ELSE IF a.t = "str"
  THEN IF b.t \in {"list", "dict"} THEN Ret(a) ELSE Raise("TypeError")
  ELSE Raise("TypeError")

\* left ** right
PyPow(a, b) ==
  IF IsNumber(a) /\ IsNumber(b)
  THEN IF ~(IsExact(a) /\ IsExact(b)) THEN Ret(Irrational)
       ELSE IF b.j = 1
       THEN IF b.i >= 0
            THEN Ret(NumV(NumType(a, b), IntPow(a.i, b.i), IntPow(a.j, b.i)))
            ELSE IF a.i = 0 THEN Raise("ZeroDivisionError")
            ELSE Ret(FloatV(IntPow(a.j, 0 - b.i), IntPow(a.i, 0 - b.i)))
       ELSE IF a.i = 0
            THEN IF b.i > 0 THEN Ret(FloatV(0, 1)) ELSE Raise("ZeroDivisionError")
            ELSE IF a.i = a.j THEN Ret(FloatV(1, 1))
            ELSE IF a.i > 0 THEN Ret(Irrational)
            ELSE Ret(ComplexV)
  ELSE IF a.t = "complex" /\ (IsNumber(b) \/ b.t = "complex") THEN Ret(ComplexV)
  ELSE IF b.t = "complex" /\ IsNumber(a) THEN Ret(ComplexV)
  ELSE Raise("TypeError")

(***************************************************************************)
(* resolve_reference                                                       *)
(***************************************************************************)
\* what a failed resolution step does, by behavior
OnFailure_always_raise(behavior, original_ref, exc) ==
  IF behavior = "passthrough" THEN Ret(StrV(original_ref))
  ELSE Raise(exc)

OnFailure_passthrough_none(behavior, original_ref, exc) ==
  IF behavior \in {"optional", "passthrough"} THEN Ret(NoneV)
  ELSE Raise(exc)

OnFailure(behavior, original_ref, exc) ==
  IF behavior = "optional" THEN Ret(NoneV)
  ELSE IF behavior = "passthrough" THEN Ret(StrV(original_ref))
  ELSE Raise(exc)

\* the for loop over parts, from part number n on
RECURSIVE ResolveParts(_, _, _, _, _)
ResolveParts(parts, n, value, behavior, original_ref) ==
  IF n > Len(parts) THEN Ret(value)
  ELSE
  LET part == strip(parts[n]) IN
  IF value.t = "dict" THEN
    IF ~DictHas(value, part)
    THEN OnFailure(behavior, original_ref, "DRLReferenceError")
    ELSE ResolveParts(parts, n + 1, DictGet(value, part), behavior, original_ref)
  ELSE IF value.t = "list" THEN
    LET index == PyInt(part) IN
    IF ~index.ok THEN OnFailure(behavior, original_ref, "DRLTypeError")
    ELSE IF 0 - Len(value.l) <= index.v /\ index.v < Len(value.l)
    THEN ResolveParts(parts, n + 1,
           value.l[IF index.v < 0 THEN Len(value.l) + index.v + 1 ELSE index.v + 1],
           behavior, original_ref)
    ELSE OnFailure(behavior, original_ref, "DRLReferenceError")
  ELSE OnFailure(behavior, original_ref, "DRLTypeError")

resolve_reference(reference, context, config, behavior, original_ref) ==
  ResolveParts(split(reference, config.key_delimiter), 1, context, behavior,
               original_ref)

(***************************************************************************)
(* Callables: the functions a registry can hold.  A callable is named by   *)
(* an id; Signature is what inspect.signature / get_type_hints report for  *)
(* it and Invoke is what calling it does.                                  *)
(***************************************************************************)
Param(kind, hint) == [kind |-> kind, hint |-> hint]

\* lambda *args: '<id>'
Plain == {"f1", "f2", "f3"}
\* def boom(*args): raise <exception>
Raising ==
  {"raise_TypeError", "raise_ValueError", "raise_KeyError", "raise_NameError",
   "raise_ZeroDivisionError"}
\* len, if_function, random.shuffle and list_get of the FUNCTIONS table
Builtin == {"len", "if_function", "shuffle", "list_get"}
Callables == Plain \cup Raising \cup Builtin

RaisedBy(id) ==
  CASE id = "raise_TypeError" -> "TypeError"
    [] id = "raise_ValueError" -> "ValueError"
    [] id = "raise_KeyError" -> "KeyError"
    [] id = "raise_NameError" -> "NameError"
    [] OTHER -> "ZeroDivisionError"

Signature(id) ==
  CASE id = "len" ->
         [inspectable |-> TRUE, params |-> <<Param("positional", "none")>>]
    [] id = "if_function" ->
         [inspectable |-> TRUE,
          params |-> <<Param("positional", "bool"), Param("positional", "Any"),
                       Param("positional", "Any")>>]
    [] id = "shuffle" ->
         [inspectable |-> TRUE, params |-> <<Param("positional", "none")>>]
    [] id = "list_get" ->
         [inspectable |-> TRUE,
          params |-> <<Param("positional", "list"), Param("positional", "int"),
                       Param("positional", "Any")>>]
    [] OTHER ->
         [inspectable |-> TRUE, params |-> <<Param("var", "none")>>]

\* the orders random.shuffle(x) can leave the list x in
Shuffled(l) ==
  {[n \in 1..Len(l) |-> l[p[n]]] :
     p \in {q \in [1..Len(l) -> 1..Len(l)] :
              \A a, b \in 1..Len(l) : q[a] = q[b] => a = b}}

\* func(*args): what the call returns or raises
\* len(x) and x[n] (n counted from 1) of a list or a str
PyLen(x) == IF x.t = "list" THEN Len(x.l) ELSE Len(x.s)
PyItem(x, n) == IF x.t = "list" THEN x.l[n] ELSE StrV(<<x.s[n]>>)

\* list_get: lst[index], or default on IndexError and TypeError
ListGet(lst, index, default) ==
  IF lst.t = "dict"
  THEN IF index.t \in {"list", "dict"} THEN Ret(default)
       ELSE IF index.t = "str" /\ DictHas(lst, index.s)
       THEN Ret(DictGet(lst, index.s))
       ELSE Raise("KeyError")
  ELSE IF lst.t \notin {"list", "str"} \/ index.t \notin {"int", "bool"}
  THEN Ret(default)
  ELSE IF index.i < 0 - PyLen(lst) \/ index.i >= PyLen(lst) THEN Ret(default)
  ELSE Ret(PyItem(lst, IF index.i < 0 THEN PyLen(lst) + index.i + 1
                       ELSE index.i + 1))

Invoke(id, args) ==
  CASE id \in Plain -> Ret(StrV(<<id>>))
    [] id \in Raising -> Raise(RaisedBy(id))
    [] id = "len" ->
         IF Len(args) # 1 THEN Raise("TypeError")
         ELSE CASE args[1].t = "str" -> Ret(IntV(Len(args[1].s)))
                [] args[1].t = "list" -> Ret(IntV(Len(args[1].l)))
                [] args[1].t = "dict" -> Ret(IntV(Len(args[1].d)))
                [] OTHER -> Raise("TypeError")
    [] id = "shuffle" ->
         IF Len(args) # 1 THEN Raise("TypeError")
         ELSE CASE args[1].t = "list" -> Ret(NoneV)
                [] args[1].t = "str" ->
                     IF Len(args[1].s) <= 1 THEN Ret(NoneV) ELSE Raise("TypeError")
                [] args[1].t = "dict" ->
                     IF Len(args[1].d) <= 1 THEN Ret(NoneV) ELSE Raise("KeyError")
                [] OTHER -> Raise("TypeError")
    [] id = "list_get" ->
         IF Len(args) \notin {2, 3} THEN Raise("TypeError")
         ELSE ListGet(args[1], args[2], IF Len(args) = 3 THEN args[3] ELSE NoneV)
    [] OTHER ->
         IF Len(args) # 3 THEN Raise("TypeError")
         ELSE Ret(IF Truthy(args[1]) THEN args[2] ELSE args[3])

(***************************************************************************)
(* convert_arg_types                                                       *)
(***************************************************************************)
\* isinstance(arg, expected_type); typing.Any is rejected by isinstance
IsInstance(arg, hint) ==
  CASE hint = "Any" -> Raise("TypeError")
    [] hint = "bool" -> Ret(BoolV(arg.t = "bool"))
    [] hint = "int" -> Ret(BoolV(arg.t \in {"int", "bool"}))
    [] hint = "str" -> Ret(BoolV(arg.t = "str"))
    [] OTHER -> Ret(BoolV(arg.t = hint))

\* expected_type(arg)
Cast(hint, arg) ==
  CASE hint = "bool" -> Ret(BoolV(Truthy(arg)))
    [] hint = "int" ->
         CASE arg.t \in {"int", "bool"} -> Ret(IntV(arg.i))
           [] arg.t = "str" ->
                IF PyInt(arg.s).ok THEN Ret(IntV(PyInt(arg.s).v))
                ELSE Raise("ValueError")
           [] arg.t = "float" /\ arg.j # 0 ->
                Ret(IntV(IF arg.i >= 0 THEN arg.i \div arg.j
                         ELSE 0 - ((0 - arg.i) \div arg.j)))
           [] OTHER -> Raise("TypeError")
    [] hint = "list" ->
         CASE arg.t = "list" -> Ret(arg)
           [] arg.t = "str" ->
                Ret(ListV([n \in 1..Len(arg.s) |-> StrV(<<arg.s[n]>>)]))
           [] arg.t = "dict" ->
                Ret(ListV([n \in 1..Len(arg.d) |-> StrV(arg.d[n].key)]))
           [] OTHER -> Raise("TypeError")
    [] OTHER -> Raise("TypeError")

\* the for loop over args, from argument number n on
RECURSIVE ConvertArgs(_, _, _, _)
RECURSIVE ConvertChecked(_, _, _, _, _)
RECURSIVE ConvertCast(_, _, _, _, _)

\* converted_args.append(expected_type(arg)), or arg when the conversion fails
ConvertCast(params, args, n, converted, c) ==
  IF c.exc \in {"TypeError", "ValueError"}
  THEN ConvertArgs(params, args, n + 1, Append(converted, args[n]))
  ELSE IF c.exc # "" THEN [exc |-> c.exc, args |-> <<>>]
  ELSE ConvertArgs(params, args, n + 1, Append(converted, c.val))

\* if not isinstance(arg, expected_type): try the conversion
ConvertChecked(params, args, n, converted, inst) ==
  IF inst.exc # "" THEN [exc |-> inst.exc, args |-> <<>>]
  ELSE IF Truthy(inst.val)
  THEN ConvertArgs(params, args, n + 1, Append(converted, args[n]))
  ELSE ConvertCast(params, args, n, converted, Cast(params[n].hint, args[n]))

ConvertArgs(params, args, n, converted) ==
  IF n > Len(args) THEN [exc |-> "", args |-> converted]
  ELSE IF n > Len(params) \/ params[n].kind = "var" \/ params[n].hint = "none"
  THEN ConvertArgs(params, args, n + 1, Append(converted, args[n]))
  ELSE ConvertChecked(params, args, n, converted,
                      IsInstance(args[n], params[n].hint))

\* except (ValueError, TypeError): return list(args)
ConvertOrKeep(args, r) ==
  IF r.exc \in {"ValueError", "TypeError"} THEN [exc |-> "", args |-> args]
  ELSE r

convert_arg_types(function, args) ==
  IF args = <<>> THEN [exc |-> "", args |-> <<>>]
  ELSE IF ~Signature(function).inspectable THEN [exc |-> "", args |-> args]
  ELSE ConvertOrKeep(args, ConvertArgs(Signature(function).params, args, 1, <<>>))

(***************************************************************************)
(* execute                                                                 *)
(***************************************************************************)
\* a call made through the registry: the name, the callable and its arguments
Call(fn, callable, args) == [fn |-> fn, callable |-> callable, args |-> args]

\* the callable execute picks for function_name ("" when there is none)
LookupFunction_global_first(function_name, config, FUNCTIONS) ==
  IF function_name \in DOMAIN FUNCTIONS THEN FUNCTIONS[function_name]
  ELSE IF function_name \in DOMAIN config.custom_functions
  THEN config.custom_functions[function_name]
  ELSE ""

LookupFunction(function_name, config, FUNCTIONS) ==
  IF function_name \in DOMAIN config.custom_functions
  THEN config.custom_functions[function_name]
  ELSE IF function_name \in DOMAIN FUNCTIONS THEN FUNCTIONS[function_name]
  ELSE ""

\* an outcome of evaluation: the exception raised ("" for none), the value
\* returned, the function the error message names, and the calls made so far
Outcome(exc, val, names, log) ==
  [exc |-> exc, val |-> val, names |-> names, log |-> log]

\* the outcome of a call or a lookup r, with the error's names and the log
Returned(r, names, log) == Outcome(r.exc, r.val, names, log)

\* return func(*converted_args)
CallConverted(function_name, func, converted, log) ==
  IF converted.exc # "" THEN Outcome(converted.exc, NoneV, <<>>, log)
  ELSE Returned(Invoke(func, converted.args), <<>>,
                Append(log, Call(function_name, func, converted.args)))

\* the two lookups of execute, then the call; NameError when both miss
ExecuteFound(function_name, func, args, log) ==
  IF func = "" THEN Outcome("NameError", NoneV, function_name, log)
  ELSE CallConverted(function_name, func, convert_arg_types(func, args), log)

execute(function_name, args, config, FUNCTIONS, log) ==
  ExecuteFound(function_name, LookupFunction(function_name, config, FUNCTIONS),
               args, log)

(***************************************************************************)
(* evaluate                                                                *)
(***************************************************************************)
DRLErrors ==
  {"DRLError", "DRLSyntaxError", "DRLNameError", "DRLTypeError",
   "DRLReferenceError"}

\* int(value) / float(value) of a NUMBER token
NumberValue(value) ==
  IF CharIn(".", value)
  THEN LET dot == CHOOSE n \in 1..Len(value) : value[n] = "."
           digits == SubSeq(value, 1, dot - 1) \o SubSeq(value, dot + 1, Len(value))
       IN FloatV(DigitsVal(digits, 0), IntPow(10, Len(value) - dot))
  ELSE IntV(DigitsVal(value, 0))

\* parsed[1] == op for an operator string op
Is(node, op) == node.k = "str" /\ node.value = op

\* the division and modulo guards: right == 0
DivisorIsZero_int_only(right) == right.t = "int" /\ right.i = 0
DivisorIsZero(right) == IsZero(right)

\* "Perform the operation" of the OPERATOR branch
ApplyOperator(operator, left, right) ==
  IF Is(operator, <<"+">>) THEN PyAdd(left, right)
  ELSE IF Is(operator, <<"-">>) THEN PySub(left, right)
  ELSE IF Is(operator, <<"*">>) THEN PyMul(left, right)
  ELSE IF Is(operator, <<"/">>)
  THEN IF DivisorIsZero(right) THEN Raise("DRLTypeError") ELSE PyDiv(left, right)
  ELSE IF Is(operator, <<"%">>)
  THEN IF DivisorIsZero(right) THEN Raise("DRLTypeError") ELSE PyModulo(left, right)
  ELSE IF Is(operator, <<"^">>) THEN PyPow(left, right)
  ELSE Raise("DRLSyntaxError")

PyLessEq(a, b) ==
  LET lt == PyLess(a, b)
  IN IF lt.exc # "" THEN lt ELSE Ret(BoolV(Truthy(lt.val) \/ PyEq(a, b)))

ApplyComparison(operator, left, right) ==
  IF Is(operator, <<"=", "=">>) THEN Ret(BoolV(PyEq(left, right)))
  ELSE IF Is(operator, <<"!", "=">>) THEN Ret(BoolV(~PyEq(left, right)))
  ELSE IF Is(operator, <<"<">>) THEN PyLess(left, right)
  ELSE IF Is(operator, <<">">>) THEN PyLess(right, left)
  ELSE IF Is(operator, <<"<", "=">>) THEN PyLessEq(left, right)
  ELSE IF Is(operator, <<">", "=">>) THEN PyLessEq(right, left)
  ELSE Raise("DRLSyntaxError")

ApplyLogical(operator, left, right) ==
  IF Is(operator, <<"a", "n", "d">>)
  THEN Ret(IF Truthy(left) THEN right ELSE left)
  ELSE IF Is(operator, <<"o", "r">>)
  THEN Ret(IF Truthy(left) THEN left ELSE right)
  ELSE Raise("DRLSyntaxError")

\* env is [context, config, FUNCTIONS]: what evaluate reads besides the tree
Env(context, config, FUNCTIONS) ==
  [context |-> context, config |-> config, FUNCTIONS |-> FUNCTIONS]

RECURSIVE evaluate(_, _, _)
RECURSIVE EvaluateBoth(_, _, _, _)
RECURSIVE EvaluateRight(_, _, _)
RECURSIVE EvaluateArguments(_, _, _, _, _)
RECURSIVE EvaluateNext(_, _, _, _, _)

\* both operand values, or the failure of the right operand
Both(left, right) ==
  IF right.exc # ""
  THEN [exc |-> right.exc, names |-> right.names, failed |-> "right",
        left |-> left.val, right |-> NoneV, log |-> right.log]
  ELSE [exc |-> "", names |-> <<>>, failed |-> "", left |-> left.val,
        right |-> right.val, log |-> right.log]

\* right = evaluate(parsed[3]), reached when the left operand has a value
EvaluateRight(left, right_node, env) ==
  IF left.exc # ""
  THEN [exc |-> left.exc, names |-> left.names, failed |-> "left",
        left |-> NoneV, right |-> NoneV, log |-> left.log]
  ELSE Both(left, evaluate(right_node, env, left.log))

\* left = evaluate(parsed[2]); right = evaluate(parsed[3]): the first failure,
\* or both values
EvaluateBoth(left_node, right_node, env, log) ==
  EvaluateRight(evaluate(left_node, env, log), right_node, env)

\* one element of the comprehension: its failure, or the rest of the arguments
EvaluateNext(nodes, n, env, args, r) ==
  IF r.exc # ""
  THEN [exc |-> r.exc, names |-> r.names, args |-> <<>>, log |-> r.log]
  ELSE EvaluateArguments(nodes, n + 1, env, r.log, Append(args, r.val))

\* [evaluate(arg) for arg in parsed[1:]], from argument number n on
EvaluateArguments(nodes, n, env, log, args) ==
  IF n > Len(nodes) THEN [exc |-> "", names |-> <<>>, args |-> args, log |-> log]
  ELSE EvaluateNext(nodes, n, env, args, evaluate(nodes[n], env, log))

\* a Token
EvaluateToken(parsed, env, log) ==
  IF parsed.type = "REFERENCE"
  THEN Returned(resolve_reference(parsed.value, env.context, env.config,
                                  parsed.behavior,
                                  env.config.ref_indicator \o parsed.value),
                <<>>, log)
  ELSE IF parsed.type = "STRING" THEN Outcome("", StrV(parsed.value), <<>>, log)
  ELSE IF parsed.type = "NUMBER"
  THEN Outcome("", NumberValue(parsed.value), <<>>, log)
  ELSE IF parsed.type = "BOOLEAN"
  THEN Outcome("", BoolV(parsed.value = <<"T", "r", "u", "e">>), <<>>, log)
  ELSE IF parsed.type = "IDENTIFIER"
  THEN Outcome("", StrV(parsed.value), <<>>, log)
  ELSE Outcome("DRLSyntaxError", NoneV, <<>>, log)

\* the OPERATOR branch once the operands were evaluated (first)
Operate(parsed, env, first) ==
  IF first.exc \in {"TypeError", "ValueError"}
  THEN \* the handler evaluates both operands again
       Outcome("DRLTypeError", NoneV, <<>>,
               EvaluateBoth(parsed.items[3], parsed.items[4], env, first.log).log)
  ELSE IF first.exc # "" THEN Outcome(first.exc, NoneV, first.names, first.log)
  ELSE Returned(ApplyOperator(parsed.items[2], first.left, first.right), <<>>,
                first.log)

\* the COMPARISON branch once the operands were evaluated
Compare(operator, both) ==
  IF both.exc # "" THEN Outcome(both.exc, NoneV, both.names, both.log)
  ELSE Returned(ApplyComparison(operator, both.left, both.right), <<>>, both.log)

\* a LOGICAL branch that forgets what the right operand did when the left
\* operand decides the result
Logic_short_circuit(operator, both) ==
  IF both.exc # "" THEN Outcome(both.exc, NoneV, both.names, both.log)
  ELSE IF Truthy(both.left) = (operator.value = <<"o", "r">>)
  THEN Outcome("", both.left, <<>>, <<>>)
  ELSE Returned(ApplyLogical(operator, both.left, both.right), <<>>, both.log)

\* the LOGICAL branch once the operands were evaluated
Logic(operator, both) ==
  IF both.exc # "" THEN Outcome(both.exc, NoneV, both.names, both.log)
  ELSE Returned(ApplyLogical(operator, both.left, both.right), <<>>, both.log)

\* the NOT branch once the operand was evaluated
Negate(operand) ==
  IF operand.exc # "" THEN operand
  ELSE Outcome("", BoolV(~Truthy(operand.val)), <<>>, operand.log)

\* the except clauses around functions.execute
Called(head, r) ==
  IF r.exc = "NameError" THEN Outcome("DRLNameError", NoneV, head, r.log)
  ELSE IF r.exc \in DRLErrors \cup {""} THEN r
  ELSE Outcome("DRLTypeError", NoneV, head, r.log)

\* a function-call branch that invokes the callable on the arguments it has
\* before it reports the failure of an argument
CallFunction_invokes_anyway(head, env, a) ==
  IF a.exc # ""
  THEN Outcome(IF a.exc \in DRLErrors THEN a.exc ELSE "DRLTypeError", NoneV, head,
               execute(head, a.args, env.config, env.FUNCTIONS, a.log).log)
  ELSE Called(head, execute(head, a.args, env.config, env.FUNCTIONS, a.log))

\* the function-call branch once the arguments were evaluated (a)
CallFunction(head, env, a) ==
  IF a.exc \in DRLErrors THEN Outcome(a.exc, NoneV, a.names, a.log)
  ELSE IF a.exc # "" THEN Outcome("DRLTypeError", NoneV, head, a.log)
  ELSE Called(head, execute(head, a.args, env.config, env.FUNCTIONS, a.log))

\* a list whose first element is a string: a tagged node or a function call
EvaluateList(parsed, env, log) ==
  IF parsed.items[1].value = OPERATOR /\ Len(parsed.items) = 4
  THEN Operate(parsed, env,
               EvaluateBoth(parsed.items[3], parsed.items[4], env, log))
  ELSE IF parsed.items[1].value = COMPARISON /\ Len(parsed.items) = 4
  THEN Compare(parsed.items[2],
               EvaluateBoth(parsed.items[3], parsed.items[4], env, log))
  ELSE IF parsed.items[1].value = LOGICAL /\ Len(parsed.items) = 4
  THEN Logic(parsed.items[2],
             EvaluateBoth(parsed.items[3], parsed.items[4], env, log))
  ELSE IF parsed.items[1].value = NOT /\ Len(parsed.items) = 2
  THEN Negate(evaluate(parsed.items[2], env, log))
  ELSE CallFunction(parsed.items[1].value, env,
                    EvaluateArguments(Tail(parsed.items), 1, env, log, <<>>))

evaluate(parsed, env, log) ==
  IF parsed.k = "Token" THEN EvaluateToken(parsed, env, log)
  ELSE IF parsed.k = "list" /\ Len(parsed.items) > 0 /\ parsed.items[1].k = "str"
  THEN EvaluateList(parsed, env, log)
  ELSE IF parsed.k = "NoneType" THEN Outcome("", NoneV, <<>>, log)
  ELSE Outcome("", StrV(parsed.value), <<>>, log)

(***************************************************************************)
(* interpret                                                               *)
(***************************************************************************)
\* the except clauses of interpret
Reraise_unwrapped(exc) == exc

Reraise(exc) ==
  IF exc \in DRLErrors THEN exc
  ELSE IF exc = "KeyError" THEN "DRLReferenceError"
  ELSE "DRLError"

\* what leaves interpret: the value, or the exception after the except clauses
Leave(r) ==
  IF r.exc = "" THEN r ELSE Outcome(Reraise(r.exc), NoneV, r.names, r.log)

\* result = evaluate(parsed, context, config)
Evaluated(parsed, context, config, FUNCTIONS) ==
  IF parsed.exc # "" THEN Outcome(parsed.exc, NoneV, <<>>, <<>>)
  ELSE evaluate(parsed.node, Env(context, config, FUNCTIONS), <<>>)

interpret(line, context, config, FUNCTIONS) ==
  Leave(Evaluated(parse_line(line, config), context, config, FUNCTIONS))

(***************************************************************************)
(* str(value) and repr(value), as interpolate uses them on resolved values *)
(***************************************************************************)
DigitChars == <<"0", "1", "2", "3", "4", "5", "6", "7", "8", "9">>

RECURSIVE NatText(_)
NatText(n) ==
  IF n < 10 THEN <<DigitChars[n + 1]>>
  ELSE NatText(n \div 10) \o <<DigitChars[(n % 10) + 1]>>

\* str(n) for an int
IntText(n) == IF n < 0 THEN <<"-">> \o NatText(0 - n) ELSE NatText(n)

\* the number of decimal places of 1/d when d has no prime factor but 2 and 5
\* (negative when the expansion does not end)
RECURSIVE DecimalPlaces(_)
DecimalPlaces(d) ==
  IF d = 1 THEN 0
  ELSE IF d % 10 = 0 THEN 1 + DecimalPlaces(d \div 10)
  ELSE IF d % 2 = 0 THEN 1 + DecimalPlaces(d \div 2)
  ELSE IF d % 5 = 0 THEN 1 + DecimalPlaces(d \div 5)
  ELSE -1000

RECURSIVE ZeroPad(_, _)
ZeroPad(digits, width) ==
  IF Len(digits) >= width THEN digits ELSE ZeroPad(<<"0">> \o digits, width)

\* the text of a float whose digits the model does not compute: a float with
\* no exact fraction, an expansion that does not end, or exponent notation
UnknownFloatText == <<"<float>">>

\* repr(n / d) for a float that is the fraction n / d in lowest terms
FloatText(n, d) ==
  LET places == DecimalPlaces(d)
      k == IF places = 0 THEN 1 ELSE places
      scaled == (Abs(n) * IntPow(10, k)) \div d
  IN IF d = 0 \/ places < 0 \/ places > 4 THEN UnknownFloatText
     ELSE (IF n < 0 THEN <<"-">> ELSE <<>>)
          \o NatText(scaled \div IntPow(10, k)) \o <<".">>
          \o ZeroPad(NatText(scaled % IntPow(10, k)), k)

\* the body of repr(s) between its quotes
RECURSIVE EscapeText(_, _)
EscapeText(s, quote) ==
  IF s = <<>> THEN <<>>
  ELSE (CASE Head(s) = "\\" -> <<"\\", "\\">>
          [] Head(s) = quote -> <<"\\", quote>>
          [] Head(s) = "\n" -> <<"\\", "n">>
          [] Head(s) = "\t" -> <<"\\", "t">>
          [] Head(s) = "\r" -> <<"\\", "r">>
          [] OTHER -> <<Head(s)>>) \o EscapeText(Tail(s), quote)

\* repr(s) for a str: double quotes when s holds a single quote and no
\* double quote
StrRepr(s) ==
  IF CharIn("'", s) /\ ~CharIn("\"", s)
  THEN <<"\"">> \o EscapeText(s, "\"") \o <<"\"">>
  ELSE <<"'">> \o EscapeText(s, "'") \o <<"'">>

RECURSIVE repr(_)
RECURSIVE ListItemsText(_, _)
RECURSIVE DictItemsText(_, _)

\* ', '.join(repr(x) for x in l), from item n on
ListItemsText(l, n) ==
  IF n > Len(l) THEN <<>>
  ELSE repr(l[n]) \o (IF n < Len(l) THEN <<",", " ">> ELSE <<>>) \o ListItemsText(l, n + 1)

DictItemsText(d, n) ==
  IF n > Len(d) THEN <<>>
  ELSE StrRepr(d[n].key) \o <<":", " ">> \o repr(d[n].val)
       \o (IF n < Len(d) THEN <<",", " ">> ELSE <<>>) \o DictItemsText(d, n + 1)

repr(v) ==
  CASE v.t = "int" -> IntText(v.i)
    [] v.t = "bool" -> IF v.i # 0 THEN <<"T", "r", "u", "e">> ELSE <<"F", "a", "l", "s", "e">>
    [] v.t = "float" -> FloatText(v.i, v.j)
    [] v.t = "str" -> StrRepr(v.s)
    [] v.t = "NoneType" -> <<"N", "o", "n", "e">>
    [] v.t = "list" -> <<"[">> \o ListItemsText(v.l, 1) \o <<"]">>
    [] v.t = "dict" -> <<"{">> \o DictItemsText(v.d, 1) \o <<"}">>
    [] OTHER -> <<"<complex>">>

\* str(v)
str(v) == IF v.t = "str" THEN v.s ELSE repr(v)

(***************************************************************************)
(* interpolate                                                             *)
(***************************************************************************)
\* the scan for the closing %} of an expression block: the index of the %}
\* that brings depth to zero, or -1 when the template ends first
RECURSIVE BlockEnd(_, _, _)
BlockEnd(template, i, depth) ==
  IF i >= Len(template) THEN -1
  ELSE IF Slice(template, i, i + 2) = <<"{", "%">> THEN BlockEnd(template, i + 2, depth + 1)
  ELSE IF Slice(template, i, i + 2) = <<"%", "}">>
       THEN IF depth = 1 THEN i ELSE BlockEnd(template, i + 2, depth - 1)
  ELSE BlockEnd(template, i + 1, depth)

template_stop_chars == <<" ", "\t", "\n", "\r", "(", ")", ",", "'", "\"", "+",
    "-", "*", "/", "%", "^", "<", ">", "=", "!", "[", "]", "{", "}", ";">>

\* the end of a bare reference path in a template
RECURSIVE BarePathEnd(_, _, _)
BarePathEnd(template, config, i) ==
  IF i >= Len(template) THEN i
  ELSE IF /\ template[i + 1] = config.key_delimiter[1]
          /\ Slice(template, i, i + Len(config.key_delimiter)) = config.key_delimiter
       THEN BarePathEnd(template, config, i + Len(config.key_delimiter))
  ELSE IF CharIn(template[i + 1], template_stop_chars \o config.ref_indicator)
       THEN i
  ELSE BarePathEnd(template, config, i + 1)

\* result.append(str(value) if value is not None else "")
ValueText(value) == IF value.t = "NoneType" THEN <<>> ELSE str(value)

\* original_ref as interpolate rebuilds it
TemplateOriginalRef(config, opener, ref_path) ==
  IF opener = "" THEN config.ref_indicator \o ref_path
  ELSE config.ref_indicator \o <<opener>> \o ref_path \o <<Closer(opener)>>

RECURSIVE InterpolateFrom(_, _, _, _, _, _)

\* the rest of the loop after a reference or a block gave r
Substituted(template, context, config, FUNCTIONS, i, result, r) ==
  IF r.exc # "" THEN Raise(r.exc)
  ELSE InterpolateFrom(template, context, config, FUNCTIONS, i,
                       result \o ValueText(r.val))

\* a reference whose path text is template[from:to], the loop going on at i
SubstituteReference(template, context, config, FUNCTIONS, opener, ref_path, i, result) ==
  IF ref_path = <<>>
  THEN InterpolateFrom(template, context, config, FUNCTIONS, i,
                       result \o config.ref_indicator)
  ELSE Substituted(template, context, config, FUNCTIONS, i, result,
         resolve_reference(ref_path, context, config,
           IF opener = "" THEN "required" ELSE Behavior(opener),
           TemplateOriginalRef(config, opener, ref_path)))

\* the reference indicator was found at start_pos
InterpolateReference(template, context, config, FUNCTIONS, start_pos, result) ==
  LET i == start_pos + Len(config.ref_indicator)
      bracketed == i < Len(template) /\ template[i + 1] \in {"(", "[", "{"}
      close == IF bracketed
               THEN FindChar(template, Closer(template[i + 1]), i + 1)
               ELSE BarePathEnd(template, config, i)
  IN IF bracketed /\ close >= Len(template) THEN Raise("DRLSyntaxError")
     ELSE IF bracketed
     THEN SubstituteReference(template, context, config, FUNCTIONS,
            template[i + 1], strip(Slice(template, i + 1, close)), close + 1,
            result)
     ELSE SubstituteReference(template, context, config, FUNCTIONS, "",
            strip(Slice(template, i, close)), close, result)

\* an expression block was found at start_pos
InterpolateBlock(template, context, config, FUNCTIONS, start_pos, result) ==
  LET expr_start == SkipSpaces(template, start_pos + 2)
      close == BlockEnd(template, expr_start, 1)
  IN IF close < 0 THEN Raise("DRLSyntaxError")
     ELSE Substituted(template, context, config, FUNCTIONS, close + 2, result,
            interpret(rstrip(Slice(template, expr_start, close)), context,
                      config, FUNCTIONS))

\* the while loop of interpolate from index i on, and its return
InterpolateFrom(template, context, config, FUNCTIONS, i, result) ==
  IF i >= Len(template) THEN Ret(StrV(result))
  ELSE IF Slice(template, i, i + 2) = <<"{", "%">>
  THEN InterpolateBlock(template, context, config, FUNCTIONS, i, result)
  ELSE IF Slice(template, i, i + Len(config.ref_indicator)) = config.ref_indicator
  THEN InterpolateReference(template, context, config, FUNCTIONS, i, result)
  ELSE InterpolateFrom(template, context, config, FUNCTIONS, i + 1,
                       Append(result, template[i + 1]))

interpolate(template, context, config, FUNCTIONS) ==
  InterpolateFrom(template, context, config, FUNCTIONS, 0, <<>>)

(***************************************************************************)
(* interpolate_dict                                                        *)
(***************************************************************************)
RECURSIVE InterpolateListFrom(_, _, _, _, _, _)

\* the list comprehension of interpolate_dict after item n gave r
ListItemDone(template, n, context, config, FUNCTIONS, items, r) ==
  IF r.exc # "" THEN Raise(r.exc)
  ELSE InterpolateListFrom(template, n + 1, context, config, FUNCTIONS,
                           Append(items, r.val))

\* [interpolate(item, ...) if isinstance(item, str) else item for item in template]
InterpolateListFrom(template, n, context, config, FUNCTIONS, items) ==
  IF n > Len(template) THEN Ret(ListV(items))
  ELSE IF template[n].t = "str"
  THEN ListItemDone(template, n, context, config, FUNCTIONS, items,
         interpolate(template[n].s, context, config, FUNCTIONS))
  ELSE InterpolateListFrom(template, n + 1, context, config, FUNCTIONS,
                           Append(items, template[n]))

\* if not config.drop_empty or value is not None: results[key] = value
Keep(config, value) == ~config.drop_empty \/ value.t # "NoneType"

RECURSIVE InterpolateItemsFrom(_, _, _, _, _, _)

\* the loop over templates.items() after the template of item n gave r
ItemDone(templates, n, context, config, FUNCTIONS, results, r) ==
  IF r.exc # "" THEN Raise(r.exc)
  ELSE InterpolateItemsFrom(templates, n + 1, context, config, FUNCTIONS,
         IF Keep(config, r.val)
         THEN Append(results, Item(templates[n].key, r.val))
         ELSE results)

\* for key, template in templates.items(), from item n on
InterpolateItemsFrom(templates, n, context, config, FUNCTIONS, results) ==
  IF n > Len(templates) THEN Ret(DictV(results))
  ELSE ItemDone(templates, n, context, config, FUNCTIONS, results,
         CASE templates[n].val.t = "dict" ->
                InterpolateItemsFrom(templates[n].val.d, 1, context, config,
                                     FUNCTIONS, <<>>)
           [] templates[n].val.t = "list" ->
                InterpolateListFrom(templates[n].val.l, 1, context, config,
                                    FUNCTIONS, <<>>)
           [] templates[n].val.t = "str" ->
                interpolate(templates[n].val.s, context, config, FUNCTIONS)
           [] OTHER -> Ret(templates[n].val))

interpolate_dict(templates, context, config, FUNCTIONS) ==
  InterpolateItemsFrom(templates.d, 1, context, config, FUNCTIONS, <<>>)

(***************************************************************************)
(* DRLConfig.__init__                                                      *)
(***************************************************************************)
\* ref_reserved and key_reserved
ref_reserved == <<"(", ")", ",", "'", "\"", " ", "\t", "\n", "\r">>
key_reserved == <<"(", ")", ",", "'", "\"", " ", "\t", "\n", "\r">>

\* DRLConfig(ref_indicator, key_delimiter, custom_functions, drop_empty): the
\* object constructed, or the ValueError raised
DRLConfig(ref_indicator, key_delimiter, custom_functions, drop_empty) ==
  IF InStr(ref_indicator, ref_reserved) \/ InStr(key_delimiter, key_reserved)
  THEN [exc |-> "ValueError", config |-> Config(<<>>, <<>>, NoFunctions)]
  ELSE [exc |-> "",
        config |-> [Config(ref_indicator, key_delimiter, custom_functions)
                      EXCEPT !.drop_empty = drop_empty]]

(***************************************************************************)
(* State                                                                   *)
(***************************************************************************)
VARIABLES
  FUNCTIONS,   \* functions.FUNCTIONS, the process-wide table: name -> callable
  dicts,       \* the dict objects that hold custom functions: object -> mapping
  configs,     \* the DRLConfig objects: config -> its custom_functions object
  history,     \* the register_function / del calls made on FUNCTIONS so far
  pc,          \* where the caller is
  input,       \* the arguments of the call being made
  output       \* what the call returned or raised

vars == <<FUNCTIONS, dicts, configs, history, pc, input, output>>

\* the FUNCTIONS table as the module defines it (the entries the model calls)
InitialFunctions ==
  [n \in {<<"l", "e", "n">>, <<"i", "f">>} |->
     IF n = <<"l", "e", "n">> THEN "len" ELSE "if_function"]

NoOutput == Outcome("", NoneV, <<>>, <<>>)

\* the registry does not change in the specifications of the pure functions
RegistryIdle ==
  /\ FUNCTIONS = InitialFunctions
  /\ dicts = <<>>
  /\ configs = <<>>
  /\ history = <<>>

(***************************************************************************)
(* Contexts                                                                *)
(***************************************************************************)
\* {a: {b: {c: 'silver'}}, ptr: {sel: 'b'}}
RockContext ==
  DictV(<<Item(<<"a">>, DictV(<<Item(<<"b">>,
            DictV(<<Item(<<"c">>, StrV(<<"s", "i", "l", "v", "e", "r">>))>>))>>)),
          Item(<<"p", "t", "r">>, DictV(<<Item(<<"s", "e", "l">>, StrV(<<"b">>))>>))>>)

\* {a: None, b: 'x', l: [1, {b: 0}, [2]], c: {a: [], b: {}}}
MixedContext ==
  DictV(<<Item(<<"a">>, NoneV),
          Item(<<"b">>, StrV(<<"x">>)),
          Item(<<"l">>, ListV(<<IntV(1), DictV(<<Item(<<"b">>, IntV(0))>>),
                                ListV(<<IntV(2)>>)>>)),
          Item(<<"c">>, DictV(<<Item(<<"a">>, ListV(<<>>)),
                                Item(<<"b">>, DictV(<<>>))>>))>>)

Contexts == {RockContext, MixedContext}

(***************************************************************************)
(* SpecResolve: resolve_reference, called directly and through the three   *)
(* reference forms of interpret, on paths built from segments              *)
(***************************************************************************)
MaxPathLen == 3

PathKeys ==
  {<<"a">>, <<"b">>, <<"c">>, <<"l">>, <<"x">>, <<"0">>, <<"1">>, <<"2">>,
   <<"-", "1">>, <<"3">>}

Paths == UNION {[1..n -> PathKeys] : n \in 1..MaxPathLen}

Behaviors == {"required", "optional", "passthrough"}
Forms == {"(", "[", "{", ""}

\* the text of a path: its segments joined by the key delimiter, each padded
PathText(segments, pad) ==
  join(<<">">>, [n \in 1..Len(segments) |-> pad \o segments[n] \o pad])

\* the reference written in one of the forms $(p) $[p] ${p} $p
FormText(form, path) ==
  IF form = "" THEN <<"$">> \o path
  ELSE <<"$", form>> \o path \o <<Closer(form)>>

InitResolve ==
  /\ RegistryIdle
  /\ pc = "start"
  /\ output = NoOutput
  /\ \E segments \in Paths, pad \in {<<>>, <<" ">>}, context \in Contexts :
       input = [segments |-> segments, reference |-> PathText(segments, pad),
                context |-> context, behavior |-> "", form |-> "", line |-> <<>>]

\* resolve_reference(reference, context, behavior=..., original_ref=...)
Resolve(behavior) ==
  /\ pc = "start"
  /\ pc' = "resolved"
  /\ input' = [input EXCEPT !.behavior = behavior]
  /\ output' = LET r == resolve_reference(input.reference, input.context,
                                          DEFAULT_CONFIG, behavior,
                                          <<"$">> \o input.reference)
               IN Outcome(r.exc, r.val, <<>>, <<>>)
  /\ UNCHANGED <<FUNCTIONS, dicts, configs, history>>

\* interpret('$(p)'), interpret('$[p]'), interpret('${p}'), interpret('$p')
InterpretReference(form) ==
  /\ pc = "start"
  /\ pc' = "interpreted"
  /\ input' = [input EXCEPT !.form = form,
                            !.behavior = IF form = "" THEN "required"
                                         ELSE Behavior(form),
                            !.line = FormText(form, input.reference)]
  /\ output' = interpret(FormText(form, input.reference), input.context,
                         DEFAULT_CONFIG, FUNCTIONS)
  /\ UNCHANGED <<FUNCTIONS, dicts, configs, history>>

NextResolve ==
  \/ \E behavior \in Behaviors : Resolve(behavior)
  \/ \E form \in Forms : InterpretReference(form)

SpecResolve == InitResolve /\ [][NextResolve]_vars

\* The value stored in context at a path given as its list of segments: a
\* mapping is entered by key, a sequence by a decimal index counted from the
\* front, or from the back when negative.
IndexOf(segment) ==
  CASE segment = <<"0">> -> 0 [] segment = <<"1">> -> 1 [] segment = <<"2">> -> 2
    [] segment = <<"3">> -> 3 [] segment = <<"-", "1">> -> -1 [] OTHER -> 99

RECURSIVE Stored(_, _)
Stored(value, segments) ==
  IF segments = <<>> THEN [status |-> "found", val |-> value]
  ELSE IF value.t = "dict"
  THEN IF \E n \in 1..Len(value.d) : value.d[n].key = Head(segments)
       THEN Stored(DictGet(value, Head(segments)), Tail(segments))
       ELSE [status |-> "missing key", val |-> NoneV]
  ELSE IF value.t = "list"
  THEN LET k == IndexOf(Head(segments))
       IN IF k = 99 THEN [status |-> "not an index", val |-> NoneV]
          ELSE IF 0 <= k /\ k < Len(value.l)
          THEN Stored(value.l[k + 1], Tail(segments))
          ELSE IF k < 0 /\ 0 - k <= Len(value.l)
          THEN Stored(value.l[Len(value.l) + k + 1], Tail(segments))
          ELSE [status |-> "out of range", val |-> NoneV]
  ELSE [status |-> "scalar", val |-> NoneV]

\* the line is read as the one reference it was written as
ReadAsOneReference ==
  LET t == tokenize(input.line, DEFAULT_CONFIG)
  IN t.exc = "" /\ Len(t.tokens) = 1 /\ t.tokens[1].type = "REFERENCE"
     /\ t.tokens[1].value = strip(input.reference)

\* C1: resolve_reference returns the stored value itself, under every
\* behavior, when every segment of the path resolves; when a mapping key of
\* the path is absent, the Optional form returns None and the Required forms
\* raise DRLReferenceError.
C1_ResolveReturnsStoredValue ==
  LET st == Stored(input.context, input.segments)
      called == pc = "resolved" \/ (pc = "interpreted" /\ ReadAsOneReference)
  IN called =>
       /\ st.status = "found" => output.exc = "" /\ output.val = st.val
       /\ st.status = "missing key" /\ input.behavior = "optional" =>
            output.exc = "" /\ output.val = NoneV
       /\ st.status = "missing key" /\ input.behavior = "required" =>
            output.exc = "DRLReferenceError"

\* a None stored under a key is returned, as None, by the Optional form
C1_Witness ==
  /\ pc = "interpreted"
  /\ input.form = "["
  /\ ReadAsOneReference
  /\ Stored(input.context, input.segments).status = "found"
  /\ output.exc = ""
  /\ output.val = NoneV

(***************************************************************************)
(* SpecParse: parse_line and interpret on the lines "a op1 b op2 c"         *)
(***************************************************************************)
\* the binary operators of the precedence table
BinaryOperators ==
  {<<"^">>, <<"*">>, <<"/">>, <<"%">>, <<"+">>, <<"-">>, <<"<">>, <<">">>,
   <<"<", "=">>, <<">", "=">>, <<"=", "=">>, <<"!", "=">>, <<"a", "n", "d">>,
   <<"o", "r">>}

\* the operands a, b, c as they are written
Triples ==
  {<<<<"2">>, <<"3">>, <<"4">>>>, <<<<"2">>, <<"3">>, <<"2">>>>,
   <<<<"1", "0">>, <<"3">>, <<"2">>>>,
   <<<<"'", "a", "'">>, <<"'", "b", "'">>, <<"'", "c", "'">>>>}

\* a op1 b op2 c
LineText(t, op1, op2) ==
  t[1] \o <<" ">> \o op1 \o <<" ">> \o t[2] \o <<" ">> \o op2 \o <<" ">> \o t[3]

\* 2 ^ 3 ^ 4 is 2 ** 81 in the code: left out, its value exceeds the
\* integers of the model
InitParse ==
  /\ RegistryIdle
  /\ pc = "start"
  /\ output = NoOutput
  /\ \E t \in Triples, op1 \in BinaryOperators, op2 \in BinaryOperators :
       /\ ~(op1 = <<"^">> /\ op2 = <<"^">> /\ t[3] = <<"4">>)
       /\ input = [a |-> t[1], b |-> t[2], c |-> t[3], op1 |-> op1,
                   op2 |-> op2, line |-> LineText(t, op1, op2)]

\* parse_line(line)
ParseLine ==
  /\ pc = "start"
  /\ pc' = "parsed"
  /\ output' = parse_line(input.line, DEFAULT_CONFIG)
  /\ UNCHANGED <<FUNCTIONS, dicts, configs, history, input>>

\* interpret(line, {})
InterpretLine ==
  /\ pc = "start"
  /\ pc' = "interpreted"
  /\ output' = interpret(input.line, DictV(<<>>), DEFAULT_CONFIG, FUNCTIONS)
  /\ UNCHANGED <<FUNCTIONS, dicts, configs, history, input>>

NextParse == ParseLine \/ InterpretLine

SpecParse == InitParse /\ [][NextParse]_vars

\* The precedence table as the documentation gives it: the level of a binary
\* operator, 1 binding tightest.
Level(op) ==
  CASE op = <<"^">> -> 1
    [] op \in {<<"*">>, <<"/">>, <<"%">>} -> 2
    [] op \in {<<"+">>, <<"-">>} -> 3
    [] op \in {<<"<">>, <<">">>, <<"<", "=">>, <<">", "=">>} -> 4
    [] op \in {<<"=", "=">>, <<"!", "=">>} -> 5
    [] op = <<"a", "n", "d">> -> 7
    [] OTHER -> 8

\* the tree of "l op r"
Group(op, l, r) ==
  PyList(<<PyStr(IF Level(op) <= 3 THEN OPERATOR
                 ELSE IF Level(op) <= 5 THEN COMPARISON ELSE LOGICAL),
           PyStr(op), l, r>>)

\* the tree of an operand written alone
Leaf(text) == parse_primary(tokenize(text, DEFAULT_CONFIG).tokens, 0, Len(text)).node

\* (a op1 b) op2 c and a op1 (b op2 c)
LeftGrouped ==
  Group(input.op2, Group(input.op1, Leaf(input.a), Leaf(input.b)), Leaf(input.c))
RightGrouped ==
  Group(input.op1, Leaf(input.a), Group(input.op2, Leaf(input.b), Leaf(input.c)))

IsLine(text) == pc = "interpreted" /\ input.line = text

\* C2: a op1 b op2 c without parentheses is grouped by the precedence table:
\* a op1 (b op2 c) when op2 binds strictly tighter than op1, (a op1 b) op2 c
\* when op1 binds strictly tighter; 2 + 3 * 4 is 14 and 2 * 3 ^ 2 is 18.
C2_GroupedByPrecedence ==
  /\ pc = "parsed" /\ Level(input.op2) < Level(input.op1) =>
       output.exc = "" /\ output.node = RightGrouped
  /\ pc = "parsed" /\ Level(input.op1) < Level(input.op2) =>
       output.exc = "" /\ output.node = LeftGrouped
  /\ IsLine(<<"2", " ", "+", " ", "3", " ", "*", " ", "4">>) =>
       output.exc = "" /\ output.val = IntV(14)
  /\ IsLine(<<"2", " ", "*", " ", "3", " ", "^", " ", "2">>) =>
       output.exc = "" /\ output.val = IntV(18)

\* 2 * 3 ^ 2 was interpreted and gave 18
C2_Witness ==
  /\ IsLine(<<"2", " ", "*", " ", "3", " ", "^", " ", "2">>)
  /\ output.val = IntV(18)

\* C3 as stated: operators of equal precedence associate to the left, so that
\* 10 - 3 - 2 is 5, 10 - 3 + 2 is 9 and 2 ^ 3 ^ 2 is 64.
C3_LeftAssociative ==
  /\ pc = "parsed" /\ Level(input.op1) = Level(input.op2) =>
       output.exc = "" /\ output.node = LeftGrouped
  /\ IsLine(<<"1", "0", " ", "-", " ", "3", " ", "-", " ", "2">>) =>
       output.val = IntV(5)
  /\ IsLine(<<"1", "0", " ", "-", " ", "3", " ", "+", " ", "2">>) =>
       output.val = IntV(9)
  /\ IsLine(<<"2", " ", "^", " ", "3", " ", "^", " ", "2">>) =>
       output.val = IntV(64)

\* what the code does with operators of equal precedence: it groups them to
\* the right, so that 10 - 3 - 2 is 9, 10 - 3 + 2 is 5 and 2 ^ 3 ^ 2 is 512
C3_RightAssociative ==
  /\ pc = "parsed" /\ Level(input.op1) = Level(input.op2) =>
       output.exc = "" /\ output.node = RightGrouped
  /\ IsLine(<<"1", "0", " ", "-", " ", "3", " ", "-", " ", "2">>) =>
       output.val = IntV(9)
  /\ IsLine(<<"1", "0", " ", "-", " ", "3", " ", "+", " ", "2">>) =>
       output.val = IntV(5)
  /\ IsLine(<<"2", " ", "^", " ", "3", " ", "^", " ", "2">>) =>
       output.val = IntV(512)

\* 10 - 3 - 2 was interpreted and gave 9
C3_Witness ==
  /\ IsLine(<<"1", "0", " ", "-", " ", "3", " ", "-", " ", "2">>)
  /\ output.val = IntV(9)

(***************************************************************************)
(* SpecInterpret: interpret on generated lines: divisions in every          *)
(* position, calls of known and unknown names, binary operations on values *)
(* of every type, and references nested in references                      *)
(***************************************************************************)
\* {a: {b: {c: 'silver'}}, ptr: {sel: 'b'}, k: {n: 'sel'}, z: 0}
InterpretContext ==
  DictV(<<Item(<<"a">>, DictV(<<Item(<<"b">>,
            DictV(<<Item(<<"c">>, StrV(<<"s", "i", "l", "v", "e",
    "r">>))>>))>>)),
          Item(<<"p", "t", "r">>, DictV(<<Item(<<"s", "e", "l">>,
    StrV(<<"b">>))>>)),
          Item(<<"k">>, DictV(<<Item(<<"n">>, StrV(<<"s", "e", "l">>))>>)),
          Item(<<"z">>, IntV(0))>>)

\* register_function('kerr', ...) and so on: functions that raise
RaisingNames == {<<"k", "e", "r", "r">>, <<"t", "e", "r", "r">>, <<"v", "e",
    "r", "r">>, <<"n", "e", "r", "r">>, <<"z", "e", "r", "r">>}

\* FUNCTIONS once these were registered
InterpretFunctions ==
  [n \in DOMAIN InitialFunctions \cup RaisingNames |->
     CASE n = <<"k", "e", "r", "r">> -> "raise_KeyError"
       [] n = <<"t", "e", "r", "r">> -> "raise_TypeError"
       [] n = <<"v", "e", "r", "r">> -> "raise_ValueError"
       [] n = <<"n", "e", "r", "r">> -> "raise_NameError"
       [] n = <<"z", "e", "r", "r">> -> "raise_ZeroDivisionError"
       [] OTHER -> InitialFunctions[n]]

\* DRLConfig(custom_functions={'f': lambda *args: 'f1'})
CustomConfig == Config(<<"$">>, <<">">>, [n \in {<<"f">>} |-> "f1"])
InterpretConfigs == {DEFAULT_CONFIG, CustomConfig}

\* a line to interpret, with what it was built from: the name called, whether
\* it divides by zero, the segments a nested reference stands for
Line(kind, line, name, zero, segments) ==
  [kind |-> kind, line |-> line, name |-> name, zero |-> zero,
   segments |-> segments, config |-> DEFAULT_CONFIG]

\* right operands that are equal to zero, and some that are not
ZeroDivisors == {<<"0">>, <<"0", ".", "0">>, <<"F", "a", "l", "s", "e">>,
    <<"$", "z">>, <<"$", "(", "z", ")">>, <<"(", "2", " ", "-", " ", "2", ")">>}
OtherDivisors == {<<"2">>, <<"'", "b", "'">>}
Dividends == {<<"1">>, <<"7">>, <<"'", "a", "'">>, <<"$", "[", "m", "i", "s",
    "s", "i", "n", "g", "]">>, <<"2", ".", "5">>}
Placements ==
  {"top", "parentheses", "right operand", "left operand", "logical operand",
   "argument", "second argument", "argument of unknown", "argument of not"}

\* the division d written at a place of a line
Placed(place, d) ==
  CASE place = "top" -> d
    [] place = "parentheses" -> <<"(">> \o d \o <<")">>
    [] place = "right operand" -> <<"1", " ", "+", " ">> \o d
    [] place = "left operand" -> <<"(">> \o d \o <<")", " ", "*", " ", "2">>
    [] place = "logical operand" -> <<"0", " ", "a", "n", "d", " ">> \o d
    [] place = "argument" -> <<"l", "e", "n", "(">> \o d \o <<")">>
    [] place = "second argument" -> <<"i", "f", "(", "1", ",",
    " ">> \o d \o <<",", " ", "2", ")">>
    [] place = "argument of unknown" -> <<"n", "o", "f", "u", "n", "c",
    "(">> \o d \o <<")">>
    [] OTHER -> <<"N", "O", "T", "(">> \o d \o <<")">>

DivisionLines ==
  {Line("division", Placed(place, x \o <<" ">> \o op \o <<" ">> \o y), <<>>,
        y \in ZeroDivisors, <<>>) :
     place \in Placements, x \in Dividends, op \in {<<"/">>, <<"%">>},
     y \in ZeroDivisors \cup OtherDivisors}

\* name(args...): names of the registry, of the custom functions, of neither,
\* and the tags the parser gives its own nodes
MaxArgs == 3
CallNames == {<<"n", "o", "f", "u", "n", "c">>, <<"N", "O", "T">>, <<"O", "P",
    "E", "R", "A", "T", "O", "R">>, <<"C", "O", "M", "P", "A", "R", "I", "S",
    "O", "N">>, <<"L", "O", "G", "I", "C", "A", "L">>, <<"l", "e", "n">>,
    <<"f">>} \cup RaisingNames
ArgAtoms == {<<"1">>, <<"$", "(", "m", "i", "s", "s", "i", "n", "g", ")">>,
    <<"'", "a", "'">>, <<"1", " ", "/", " ", "0">>}
ArgLists == UNION {[1..n -> ArgAtoms] : n \in 0..MaxArgs}

CallText(name, args) == name \o <<"(">> \o join(<<",", " ">>, args) \o <<")">>

CallLines ==
  {Line("call", CallText(name, args), name, FALSE, <<>>) :
     name \in CallNames, args \in ArgLists}

\* x op y on operands of every type; every operand has a value
OperandAtoms == {<<"5">>, <<"0">>, <<"'", "a", "'">>, <<"$", "[", "m", "i",
    "s", "s", "i", "n", "g", "]">>, <<"2", ".", "5">>, <<"T", "r", "u", "e">>,
    <<"$", "(", "a", ")">>, <<"(", "0", " ", "-", " ", "1", ")">>}

BinaryLines ==
  {Line("binary", x \o <<" ">> \o op \o <<" ">> \o y, <<>>,
        op \in {<<"/">>, <<"%">>} /\ y \in ZeroDivisors, <<>>) :
     x \in OperandAtoms, op \in BinaryOperators, y \in OperandAtoms}

\* $(a>$(ptr>sel)>c) and its variants: the nested reference stands for the
\* segment b (ptr>sel holds 'b', k>n holds 'sel')
NestedLines ==
  {Line("nested",
        FormText(outer, <<"a", ">">> \o FormText(inner, path) \o tail[1]),
        <<>>, FALSE, <<<<"a">>, <<"b">>>> \o tail[2]) :
     outer \in {"(", "[", "{"}, inner \in {"(", "[", "{"},
     path \in {<<"p", "t", "r", ">", "s", "e", "l">>, <<"p", "t", "r", ">",
    "$", "(", "k", ">", "n", ")">>},
     tail \in {<<<<>>, <<>>>>, <<<<">", "c">>, <<<<"c">>>>>>}}

\* x op y on operands whose types no arithmetic operator accepts together
\* (an int and a str, None and an int), written at every place of a line
IncompatiblePairs == {<<<<"5">>, <<"'", "a", "'">>>>, <<<<"$", "[", "m", "i", "s", "s", "i", "n", "g", "]">>, <<"1">>>>, <<<<"'", "a", "'">>, <<"2">>>>}
IncompatibleLines ==
  {Line("incompatible", Placed(place, p[1] \o <<" ">> \o op \o <<" ">> \o p[2]),
        <<>>, FALSE, <<>>) :
     place \in Placements, p \in IncompatiblePairs,
     op \in {<<"+">>, <<"-">>, <<"/">>, <<"^">>}}

Lines ==
  DivisionLines \cup CallLines \cup BinaryLines \cup NestedLines
  \cup IncompatibleLines

InitInterpret ==
  /\ FUNCTIONS = InterpretFunctions
  /\ dicts = <<>>
  /\ configs = <<>>
  /\ history = <<>>
  /\ pc = "start"
  /\ output = NoOutput
  /\ \E l \in Lines, config \in InterpretConfigs :
       input = [l EXCEPT !.config = config]

\* interpret(line, context, config)
Interpret ==
  /\ pc = "start"
  /\ pc' = "interpreted"
  /\ output' = interpret(input.line, InterpretContext, input.config, FUNCTIONS)
  /\ UNCHANGED <<FUNCTIONS, dicts, configs, history, input>>

NextInterpret == Interpret

SpecInterpret == InitInterpret /\ [][NextInterpret]_vars

\* C4 as stated: a reference nested in a bracketed reference is resolved
\* first and its value substituted as text into the outer path, so that the
\* line gives the value stored at the substituted path; $(a>$(ptr>sel)>c) is
\* 'silver'.
C4_NestedResolvedFirst ==
  pc = "interpreted" /\ input.kind = "nested" =>
    /\ output.exc = ""
    /\ output.val = Stored(InterpretContext, input.segments).val

\* $(a>$(ptr>sel)>c) raised DRLReferenceError
C4_Witness ==
  /\ pc = "interpreted"
  /\ input.line = <<"$", "(", "a", ">", "$", "(", "p", "t", "r", ">", "s",
       "e", "l", ")", ">", "c", ")">>
  /\ Stored(InterpretContext, input.segments).val
       = StrV(<<"s", "i", "l", "v", "e", "r">>)
  /\ output.exc = "DRLReferenceError"

\* the name called is in neither config.custom_functions nor FUNCTIONS
UnknownName ==
  /\ input.kind = "call"
  /\ input.name \notin DOMAIN input.config.custom_functions
  /\ input.name \notin DOMAIN FUNCTIONS

\* C8 as stated: a call of a name that is in neither config.custom_functions
\* nor FUNCTIONS raises DRLNameError naming the function, for every argument
\* list.
C8_UnknownNameRaisesNameError ==
  pc = "interpreted" /\ UnknownName =>
    output.exc = "DRLNameError" /\ output.names = input.name

\* NOT(1), with no function NOT anywhere, returned False
C8_Witness ==
  /\ pc = "interpreted"
  /\ UnknownName
  /\ input.line = <<"N", "O", "T", "(", "1", ")">>
  /\ output.exc = ""
  /\ output.val = BoolV(FALSE)

\* C9: a '/' or '%' whose right operand is equal to zero raises DRLTypeError
\* and returns no value, at the top level, in parentheses, as an operand of
\* another operator and in a function argument.
C9_DivisionByZeroRaisesTypeError ==
  pc = "interpreted" /\ input.zero => output.exc = "DRLTypeError"

\* 7 % False, written as the second argument of if, raised DRLTypeError
C9_Witness ==
  /\ pc = "interpreted"
  /\ input.zero
  /\ input.line = <<"i", "f", "(", "1", ",", " ", "7", " ", "%", " ", "F",
       "a", "l", "s", "e", ",", " ", "2", ")">>
  /\ output.exc = "DRLTypeError"

C16_IncompatibleOperandsRaiseTypeError ==
  pc = "interpreted" /\ input.kind = "incompatible" =>
    output.exc = "DRLTypeError"

\* $[missing] + 1, None + 1 as the whole line, failed with the base DRLError
C16_Witness ==
  /\ pc = "interpreted"
  /\ input.kind = "incompatible"
  /\ input.line = <<"$", "[", "m", "i", "s", "s", "i", "n", "g", "]", " ", "+", " ", "1">>
  /\ output.exc = "DRLError"

(***************************************************************************)
(* Spec: a session of a caller who builds mappings and DRLConfig objects,  *)
(* registers and deletes functions, and interprets calls                   *)
(***************************************************************************)
\* the names the session registers, deletes and calls
SessionNames == {<<"l", "e", "n">>, <<"g">>}

\* the mapping objects: d is a dict the caller owns, own_A and own_B are the
\* dicts that DRLConfig.__init__ creates for the configs A and B
DictObjects == {"d", "own_A", "own_B"}
ConfigObjects == {"A", "B"}
OwnDict(c) == IF c = "A" THEN "own_A" ELSE "own_B"

NoDict == [live |-> FALSE, map |-> NoFunctions]
Dict(map) == [live |-> TRUE, map |-> map]

\* the latest call made on the global entry of a name: register_function
\* (with the callable, and whether it replaced an entry) or del
NoCall == [op |-> "", callable |-> "", replaced |-> FALSE]

NoInput == [op |-> "", config |-> "", name |-> <<>>, callable |-> "", line |-> <<>>]

\* mapping[name] = func
SetItem_keep_existing(mapping, name, func) ==
  [n \in DOMAIN mapping \cup {name} |->
     IF n \in DOMAIN mapping THEN mapping[n] ELSE func]

SetItem(mapping, name, func) ==
  [n \in DOMAIN mapping \cup {name} |-> IF n = name THEN func ELSE mapping[n]]

\* del mapping[name]
DelItem(mapping, name) == [n \in DOMAIN mapping \ {name} |-> mapping[n]]

\* custom_functions or {}: the object that becomes config.custom_functions
CustomFunctionsOrNew(c, arg) ==
  IF arg = "None" \/ DOMAIN dicts[arg].map = {} THEN OwnDict(c) ELSE arg

\* the DRLConfig a call of interpret works with: DEFAULT_CONFIG when no
\* config is passed
ConfigValue(c) ==
  IF c = "none" THEN DEFAULT_CONFIG
  ELSE Config(<<"$">>, <<">">>, dicts[configs[c]].map)

Init ==
  /\ FUNCTIONS = InitialFunctions
  /\ dicts = [o \in DictObjects |-> NoDict]
  /\ configs = [c \in ConfigObjects |-> ""]
  /\ history = [n \in SessionNames |-> NoCall]
  /\ pc = "start"
  /\ input = NoInput
  /\ output = NoOutput

\* d = {} or d = {'len': f3}
NewDict(map) ==
  /\ ~dicts["d"].live
  /\ dicts' = [dicts EXCEPT !["d"] = Dict(map)]
  /\ pc' = "dict built"
  /\ input' = NoInput
  /\ output' = NoOutput
  /\ UNCHANGED <<FUNCTIONS, configs, history>>

\* c = DRLConfig(custom_functions=arg)
NewConfig(c, arg) ==
  /\ configs[c] = ""
  /\ arg # "None" => dicts[arg].live
  /\ configs' = [configs EXCEPT ![c] = CustomFunctionsOrNew(c, arg)]
  /\ dicts' = IF CustomFunctionsOrNew(c, arg) = OwnDict(c)
              THEN [dicts EXCEPT ![OwnDict(c)] = Dict(NoFunctions)]
              ELSE dicts
  /\ pc' = "config constructed"
  /\ input' = [NoInput EXCEPT !.op = arg, !.config = c]
  /\ output' = NoOutput
  /\ UNCHANGED <<FUNCTIONS, history>>

\* register_function(name, func)
RegisterGlobal(name, func) ==
  /\ FUNCTIONS' = SetItem(FUNCTIONS, name, func)
  /\ history' = [history EXCEPT ![name] =
                   [op |-> "register", callable |-> func,
                    replaced |-> history[name].op = "register"]]
  /\ pc' = "registered"
  /\ input' = [NoInput EXCEPT !.name = name, !.callable = func]
  /\ output' = NoOutput
  /\ UNCHANGED <<dicts, configs>>

\* register_function(name, func, config)
RegisterConfig(c, name, func) ==
  /\ configs[c] # ""
  /\ dicts' = [dicts EXCEPT ![configs[c]].map = SetItem(@, name, func)]
  /\ pc' = "config registered"
  /\ input' = [NoInput EXCEPT !.config = c, !.name = name, !.callable = func]
  /\ output' = NoOutput
  /\ UNCHANGED <<FUNCTIONS, configs, history>>

\* del FUNCTIONS[name]
DeleteGlobal(name) ==
  /\ name \in DOMAIN FUNCTIONS
  /\ FUNCTIONS' = DelItem(FUNCTIONS, name)
  /\ history' = [history EXCEPT ![name] = [NoCall EXCEPT !.op = "del"]]
  /\ pc' = "deleted"
  /\ input' = [NoInput EXCEPT !.name = name]
  /\ output' = NoOutput
  /\ UNCHANGED <<dicts, configs>>

\* interpret("name('ab')", {}) and interpret("name('ab')", {}, c)
InterpretCall(c, name) ==
  /\ c # "none" => configs[c] # ""
  /\ pc' = "interpreted"
  /\ input' = [NoInput EXCEPT !.config = c, !.name = name,
                              !.line = name \o <<"(", "'", "a", "b", "'", ")">>]
  /\ output' = interpret(name \o <<"(", "'", "a", "b", "'", ")">>, DictV(<<>>), ConfigValue(c),
                         FUNCTIONS)
  /\ UNCHANGED <<FUNCTIONS, dicts, configs, history>>

Next ==
  \/ \E map \in {NoFunctions, [n \in {<<"l", "e", "n">>} |-> "f3"]} : NewDict(map)
  \/ \E c \in ConfigObjects, arg \in {"None", "d"} : NewConfig(c, arg)
  \/ \E name \in SessionNames, func \in {"f1", "f2"} : RegisterGlobal(name, func)
  \/ \E c \in ConfigObjects, name \in SessionNames : RegisterConfig(c, name, "f3")
  \/ \E name \in SessionNames : DeleteGlobal(name)
  \/ \E c \in ConfigObjects \cup {"none"}, name \in SessionNames :
       InterpretCall(c, name)

Spec == Init /\ [][Next]_vars

\* the custom functions of the config a call of interpret was given: none
\* when it was given no config
CustomOf(c) == IF c = "none" THEN NoFunctions ELSE dicts[configs[c]].map

\* the functions callable by name under a constructed config
Visible(c) == IF configs[c] = "" THEN NoFunctions ELSE dicts[configs[c]].map

\* the same, after the step
VisibleNext(c) == IF configs'[c] = "" THEN NoFunctions ELSE dicts'[configs'[c]].map

\* the call made exactly one dispatch, of name to callable, and returned what
\* the callable returns
Dispatched(out, name, callable) ==
  /\ Len(out.log) = 1
  /\ out.log[1].fn = name
  /\ out.log[1].callable = callable
  /\ callable \in Plain => out.exc = "" /\ out.val = StrV(<<callable>>)

\* C5: dispatch consults the config's custom_functions first and FUNCTIONS
\* second: a name in both is dispatched to the custom callable, a name the
\* config in use lacks (or with no config) to the global callable; neither
\* the call nor building or extending a config changes FUNCTIONS.
C5_CustomFirstThenGlobal ==
  [][/\ pc' \in {"interpreted", "dict built", "config constructed",
                 "config registered"} => FUNCTIONS' = FUNCTIONS
     /\ pc' = "interpreted" =>
          LET n == input'.name
              custom == CustomOf(input'.config)
          IN /\ n \in DOMAIN custom => Dispatched(output', n, custom[n])
             /\ n \notin DOMAIN custom /\ n \in DOMAIN FUNCTIONS =>
                  Dispatched(output', n, FUNCTIONS[n])]_vars

\* len is both a custom function of the config and in FUNCTIONS, and the
\* call went to the custom callable
C5_Witness ==
  /\ pc = "interpreted"
  /\ input.config # "none"
  /\ input.name = <<"l", "e", "n">>
  /\ input.name \in DOMAIN CustomOf(input.config)
  /\ input.name \in DOMAIN FUNCTIONS
  /\ FUNCTIONS[input.name] # CustomOf(input.config)[input.name]
  /\ Dispatched(output, input.name, CustomOf(input.config)[input.name])

\* C6: once register_function(n, f) was called with no config, every call
\* of n whose config has no custom n (or that has no config) goes to f, until
\* n is registered again (then to the newest callable) or deleted (then the
\* name is unknown).
C6_GlobalRegistrationLasts ==
  pc = "interpreted" /\ input.name \notin DOMAIN CustomOf(input.config) =>
    /\ history[input.name].op = "register" =>
         Dispatched(output, input.name, history[input.name].callable)
    /\ history[input.name].op = "del" => output.exc = "DRLNameError"

\* g was registered, registered again with f2, and a call under a config
\* without g went to f2
C6_Witness ==
  /\ pc = "interpreted"
  /\ input.config # "none"
  /\ input.name = <<"g">>
  /\ input.name \notin DOMAIN CustomOf(input.config)
  /\ history[input.name].replaced
  /\ history[input.name].callable = "f2"
  /\ Dispatched(output, input.name, "f2")

\* C7 as stated: register_function(n, f, A) makes n callable under A and
\* changes neither FUNCTIONS, nor the functions visible under another config
\* B, nor a mapping the caller owns.
C7_ConfigRegistrationIsLocal ==
  [][pc' = "config registered" =>
       /\ input'.name \in DOMAIN VisibleNext(input'.config)
       /\ FUNCTIONS' = FUNCTIONS
       /\ \A b \in ConfigObjects \ {input'.config} : VisibleNext(b) = Visible(b)
       /\ dicts'["d"] = dicts["d"]]_vars

\* A and B were both built from the caller's dict d; after
\* register_function('g', f3, A), g is callable under B and is in d
C7_Witness ==
  /\ pc = "config registered"
  /\ input.config = "A"
  /\ input.name = <<"g">>
  /\ configs["A"] = "d"
  /\ configs["B"] = "d"
  /\ <<"g">> \in DOMAIN Visible("B")
  /\ <<"g">> \in DOMAIN dicts["d"].map

(***************************************************************************)
(* SpecInterpolate: interpolate and interpolate_dict applied to templates, *)
(* and interpret applied to the text of a one-reference template           *)
(***************************************************************************)
\* {'value': 42, 'f': 2.5, 'b': True, 'l': [1, 'a'], 'd': {'k': 1}, 's': 'v',
\*  'zero': 0, 'false': False, 'empty': '', 'none': None, 'n': {'x': 7}}
InterpolateContext ==
  DictV(<<Item(<<"v", "a", "l", "u", "e">>, IntV(42)),
          Item(<<"f">>, FloatV(5, 2)),
          Item(<<"b">>, BoolV(TRUE)),
          Item(<<"l">>, ListV(<<IntV(1), StrV(<<"a">>)>>)),
          Item(<<"d">>, DictV(<<Item(<<"k">>, IntV(1))>>)),
          Item(<<"s">>, StrV(<<"v">>)),
          Item(<<"z", "e", "r", "o">>, IntV(0)),
          Item(<<"f", "a", "l", "s", "e">>, BoolV(FALSE)),
          Item(<<"e", "m", "p", "t", "y">>, StrV(<<>>)),
          Item(<<"n", "o", "n", "e">>, NoneV),
          Item(<<"n">>, DictV(<<Item(<<"x">>, IntV(7))>>))>>)

\* DRLConfig(drop_empty=True) and DRLConfig('@', '.')
DropEmptyConfig == [DEFAULT_CONFIG EXCEPT !.drop_empty = TRUE]
AtConfig == Config(<<"@">>, <<".">>, NoFunctions)

TemplatePaths ==
  {<<InterpolateContext.d[n].key>> : n \in 1..Len(InterpolateContext.d)}
  \cup {<<<<"m", "i", "s", "s", "i", "n", "g">>>>, <<<<"n">>, <<"x">>>>, <<<<"n">>, <<"q">>>>, <<<<"l">>, <<"0">>>>,
        <<<<"v", "a", "l", "u", "e">>, <<"x">>>>}

\* "%" stands for the expression block {% $path %}
TemplateForms == {"", "(", "[", "{", "%"}
TemplateKinds == {"alone", "prefix", "suffix", "pair"}

\* one marker: a reference in one of its forms, or an expression block
Marker(config, form, segments) ==
  LET path == join(config.key_delimiter, segments)
  IN CASE form = "" -> config.ref_indicator \o path
       [] form = "%" -> <<"{", "%", " ">> \o config.ref_indicator \o path \o <<" ", "%", "}">>
       [] OTHER -> config.ref_indicator \o <<form>> \o path \o <<Closer(form)>>

TemplateText(config, kind, form, segments) ==
  CASE kind = "alone" -> Marker(config, form, segments)
    [] kind = "prefix" -> <<"i", "d", " ">> \o Marker(config, form, segments)
    [] kind = "suffix" -> Marker(config, form, segments) \o <<"!">>
    [] OTHER -> Marker(config, form, segments) \o Marker(config, form, <<<<"s">>>>)

\* templates that end inside a marker
OpenTemplates == {<<"$", "(", "v", "a", "l", "u", "e">>, <<"a", " ", "$", "[", "v", "a", "l", "u", "e">>, <<"$", "{", "v", "a", "l", "u", "e">>, <<"{", "%", " ", "1", " ", "+", " ", "2">>, <<"{", "%", " ", "{", "%", " ", "1", " ", "%", "}">>}

Template(kind, form, segments, shape, leaf, template, config) ==
  [kind |-> kind, form |-> form, segments |-> segments, shape |-> shape,
   leaf |-> leaf, template |-> template, config |-> config]

StringTemplates ==
  {Template(kind, form, segments, "", NoneV,
            StrV(TemplateText(config, kind, form, segments)), config) :
     kind \in TemplateKinds, form \in TemplateForms, segments \in TemplatePaths,
     config \in {DEFAULT_CONFIG, AtConfig}}
  \cup {Template("open", "", <<>>, "", NoneV, StrV(t), DEFAULT_CONFIG) :
          t \in OpenTemplates}

\* the leaves of the template structures given to interpolate_dict
MissingOptionalLeaves == {StrV(<<"$", "[", "m", "i", "s", "s", "i", "n", "g", "]">>), StrV(<<"$", "[", "n", ">", "q", "]">>)}
ZeroOrFalseLeaves == {StrV(<<"$", "z", "e", "r", "o">>), StrV(<<"$", "f", "a", "l", "s", "e">>), StrV(<<"$", "[", "z", "e", "r", "o", "]">>)}
Leaves ==
  MissingOptionalLeaves \cup ZeroOrFalseLeaves
  \cup {StrV(<<"$", "v", "a", "l", "u", "e">>), StrV(<<"$", "[", "n", "o", "n", "e", "]">>), StrV(<<"$", "e", "m", "p", "t", "y">>), StrV(<<"$", "(", "m", "i", "s", "s", "i", "n", "g", ")">>),
        StrV(<<"i", "d", " ", "$", "s">>), StrV(<<"p", "l", "a", "i", "n">>), IntV(5), NoneV, BoolV(FALSE)}

DictShapes == {"key", "dict", "dict in dict"}
ListShapes == {"list", "dict in list", "list in list", "list in dict",
               "list in list in dict"}

\* the template structure of a shape around a leaf
Build(shape, leaf) ==
  CASE shape = "key" -> leaf
    [] shape = "dict" -> DictV(<<Item(<<"x">>, leaf)>>)
    [] shape = "dict in dict" ->
         DictV(<<Item(<<"x">>, DictV(<<Item(<<"y">>, leaf)>>))>>)
    [] shape = "list" -> ListV(<<leaf>>)
    [] shape = "dict in list" -> ListV(<<DictV(<<Item(<<"x">>, leaf)>>)>>)
    [] shape = "list in list" -> ListV(<<ListV(<<leaf>>)>>)
    [] shape = "list in dict" -> DictV(<<Item(<<"x">>, ListV(<<leaf>>))>>)
    [] OTHER -> DictV(<<Item(<<"x">>, ListV(<<ListV(<<leaf>>)>>))>>)

\* the keys that lead to the leaf in a structure of dicts
LeafPath(shape) ==
  CASE shape = "key" -> <<<<"k">>>>
    [] shape = "dict" -> <<<<"k">>, <<"x">>>>
    [] OTHER -> <<<<"k">>, <<"x">>, <<"y">>>>

\* {'k': <structure>, 'o': 'n=$zero'}
DictTemplates ==
  {Template("dict", "", <<>>, shape, leaf,
            DictV(<<Item(<<"k">>, Build(shape, leaf)),
                    Item(<<"o">>, StrV(<<"n", "=", "$", "z", "e", "r", "o">>))>>), config) :
     shape \in DictShapes \cup ListShapes, leaf \in Leaves,
     config \in {DEFAULT_CONFIG, DropEmptyConfig}}

InitInterpolate ==
  /\ RegistryIdle
  /\ pc = "start"
  /\ output = NoOutput
  /\ input \in StringTemplates \cup DictTemplates

\* interpolate(template, context, config)
Interpolate ==
  /\ pc = "start"
  /\ input.template.t = "str"
  /\ pc' = "interpolated"
  /\ output' = Returned(interpolate(input.template.s, InterpolateContext,
                                    input.config, FUNCTIONS), <<>>, <<>>)
  /\ UNCHANGED <<FUNCTIONS, dicts, configs, history, input>>

\* interpret(template, context, config): the template read as an expression
InterpretTemplate ==
  /\ pc = "start"
  /\ input.template.t = "str"
  /\ pc' = "interpreted"
  /\ output' = interpret(input.template.s, InterpolateContext, input.config,
                         FUNCTIONS)
  /\ UNCHANGED <<FUNCTIONS, dicts, configs, history, input>>

\* interpolate_dict(templates, context, config)
InterpolateDict ==
  /\ pc = "start"
  /\ input.template.t = "dict"
  /\ pc' = "dict interpolated"
  /\ output' = Returned(interpolate_dict(input.template, InterpolateContext,
                                         input.config, FUNCTIONS), <<>>, <<>>)
  /\ UNCHANGED <<FUNCTIONS, dicts, configs, history, input>>

NextInterpolate == Interpolate \/ InterpretTemplate \/ InterpolateDict

SpecInterpolate == InitInterpolate /\ [][NextInterpolate]_vars

\* the value the context stores at the path of the template's marker
Referenced == Stored(InterpolateContext, input.segments)

\* what interpolate does: it returns "".join(result), a str, for every template
InterpolateReturnsStr ==
  pc = "interpolated" /\ output.exc = "" =>
    /\ output.val.t = "str"
    /\ input.kind = "alone" /\ Referenced.status = "found" =>
         output.val = StrV(ValueText(Referenced.val))

\* C11 as stated: when the whole template is one reference or expression
\* block, interpolate returns the resolved value with its own type (int,
\* float, bool, list, dict); when the template has literal text or a second
\* marker, it returns a string.
C11_TypePreservedForSingleMarker ==
  pc = "interpolated" /\ input.kind \in TemplateKinds =>
    /\ ( /\ input.kind = "alone"
         /\ Referenced.status = "found"
         /\ Referenced.val.t \in {"int", "float", "bool", "list", "dict"} )
       => output.exc = "" /\ output.val = Referenced.val
    /\ input.kind # "alone" /\ output.exc = "" => output.val.t = "str"

\* interpolate('$value', {'value': 42}) returned the str '42'
C11_Witness ==
  /\ pc = "interpolated"
  /\ input.template = StrV(<<"$", "v", "a", "l", "u", "e">>)
  /\ Referenced.val = IntV(42)
  /\ output.exc = ""
  /\ output.val = StrV(<<"4", "2">>)

\* key path leads to an entry of a structure of dicts
RECURSIVE HasPath(_, _)
HasPath(value, keys) ==
  /\ value.t = "dict"
  /\ DictHas(value, Head(keys))
  /\ Len(keys) > 1 => HasPath(DictGet(value, Head(keys)), Tail(keys))

\* C12 as stated: with drop_empty, the result of interpolate_dict lacks every
\* key, at any depth of nested dicts, whose template is an Optional reference
\* to a missing path, and has every key whose template resolves to 0 or False.
C12_DropEmptyOmitsMissingOptional ==
  ( /\ pc = "dict interpolated"
    /\ input.config.drop_empty
    /\ input.shape \in DictShapes ) =>
    /\ input.leaf \in MissingOptionalLeaves =>
         output.exc = "" /\ ~HasPath(output.val, LeafPath(input.shape))
    /\ input.leaf \in ZeroOrFalseLeaves =>
         output.exc = "" /\ HasPath(output.val, LeafPath(input.shape))

\* interpolate_dict({'k': '$[missing]', ...}, context, DRLConfig(drop_empty=True))
\* returned 'k' with the empty string
C12_Witness ==
  /\ pc = "dict interpolated"
  /\ input.config.drop_empty
  /\ input.shape = "key"
  /\ input.leaf = StrV(<<"$", "[", "m", "i", "s", "s", "i", "n", "g", "]">>)
  /\ output.exc = ""
  /\ DictHas(output.val, <<"k">>)
  /\ DictGet(output.val, <<"k">>) = StrV(<<>>)

\* result is template with every string leaf, at any depth of dicts and
\* lists, replaced by its interpolation and every other leaf kept
RECURSIVE EveryLeafInterpolated(_, _, _)
EveryLeafInterpolated(template, result, config) ==
  CASE template.t = "str" ->
         result = interpolate(template.s, InterpolateContext, config,
                              FUNCTIONS).val
    [] template.t = "dict" ->
         /\ result.t = "dict"
         /\ Len(result.d) = Len(template.d)
         /\ \A n \in 1..Len(template.d) :
              /\ result.d[n].key = template.d[n].key
              /\ EveryLeafInterpolated(template.d[n].val, result.d[n].val,
                                       config)
    [] template.t = "list" ->
         /\ result.t = "list"
         /\ Len(result.l) = Len(template.l)
         /\ \A n \in 1..Len(template.l) :
              EveryLeafInterpolated(template.l[n], result.l[n], config)
    [] OTHER -> result = template

\* C13 as stated: interpolate_dict interpolates every string leaf at any
\* depth of a structure of dicts and lists (strings in dicts that are list
\* elements and in lists nested in lists included) and passes every other
\* leaf through unchanged.
C13_EveryStringLeafInterpolated ==
  ( /\ pc = "dict interpolated"
    /\ ~input.config.drop_empty
    /\ output.exc = "" ) =>
    EveryLeafInterpolated(input.template, output.val, input.config)

\* interpolate_dict({'k': [{'x': '$value'}], ...}, context) returned the
\* inner dict with its template text
C13_Witness ==
  /\ pc = "dict interpolated"
  /\ ~input.config.drop_empty
  /\ input.shape = "dict in list"
  /\ input.leaf = StrV(<<"$", "v", "a", "l", "u", "e">>)
  /\ output.exc = ""
  /\ DictGet(output.val, <<"k">>) = ListV(<<DictV(<<Item(<<"x">>, StrV(<<"$", "v", "a", "l", "u", "e">>))>>)>>)

\* C14 as stated: a reference written ${path} that fails to resolve gives
\* the text refIndicator + '{' + path + '}', through interpret and through
\* interpolate alike.
C14_PassthroughKeepsBraces ==
  ( /\ pc \in {"interpolated", "interpreted"}
    /\ input.kind = "alone"
    /\ input.form = "{"
    /\ Referenced.status # "found" ) =>
    /\ output.exc = ""
    /\ output.val = StrV(input.config.ref_indicator \o <<"{">>
                         \o join(input.config.key_delimiter, input.segments)
                         \o <<"}">>)

\* interpret('${missing}', context) returned '$missing'
C14_Witness ==
  /\ pc = "interpreted"
  /\ input.template = StrV(<<"$", "{", "m", "i", "s", "s", "i", "n", "g", "}">>)
  /\ output.exc = ""
  /\ output.val = StrV(<<"$", "m", "i", "s", "s", "i", "n", "g">>)

(***************************************************************************)
(* SpecLex: tokenize and parse_line applied to lines of a few words, to    *)
(* short texts over the characters the tokenizer distinguishes, and to     *)
(* texts that open a bracketed reference or a string                       *)
(***************************************************************************)
MaxWords == 4
MaxChars == 3
MaxBody == 3

Words == {<<"2">>, <<"+">>, <<"(">>, <<")">>, <<"m", "a", "x">>}
WordLists == UNION {[1..n -> Words] : n \in 0..MaxWords}

LexChars == {"1", "a", " ", "!", "=", ".", "&", "<", "["}
CharTexts == UNION {[1..n -> LexChars] : n \in 0..MaxChars}

\* the expressions of examples/error_demo.py and of the documentation
ExampleLines == {<<"2", " ", "+", " ", "3", ")">>, <<"m", "a", "x", "(", "5", ",", " ", "1", "0">>, <<"2", " ", "+">>, <<"5", " ", "!", " ", "3">>, <<"5", " ", "&", " ", "3">>,
                 <<"s", "p", "l", "i", "t", "(", "$", "d", "a", "t", "a", ",", " ", "\"", "c", "o", "m", "m", "a", ")">>,
                 <<"$", "(", "n", "a", "m", "e">>, <<"1", " ", "!", "=", " ", "2">>, <<"{", "}">>}

Openers == {<<"$", "(">>, <<"$", "[">>, <<"$", "{">>, <<"'">>, <<"\"">>}
OpenPrefixes == {<<>>, <<"1", " ", "+", " ">>}
BodyChars == {"a", "\\", "'", "\"", ")"}
Bodies == UNION {[1..n -> BodyChars] : n \in 0..MaxBody}

Text(kind, line, prefix, opener, body) ==
  [kind |-> kind, line |-> line, prefix |-> prefix, opener |-> opener,
   body |-> body]

Texts ==
  {Text("words", join(<<" ">>, ws), <<>>, <<>>, <<>>) : ws \in WordLists}
  \cup {Text("chars", t, <<>>, <<>>, <<>>) : t \in CharTexts}
  \cup {Text("example", t, <<>>, <<>>, <<>>) : t \in ExampleLines}
  \cup {Text("open", prefix \o opener \o body, prefix, opener, body) :
          prefix \in OpenPrefixes, opener \in Openers, body \in Bodies}

InitLex ==
  /\ RegistryIdle
  /\ pc = "start"
  /\ output = TokOk(<<>>)
  /\ input \in Texts

\* tokenize(expression)
Tokenize ==
  /\ pc = "start"
  /\ pc' = "tokenized"
  /\ output' = tokenize(input.line, DEFAULT_CONFIG)
  /\ UNCHANGED <<FUNCTIONS, dicts, configs, history, input>>

\* parse_line(line)
ParseTokens ==
  /\ pc = "start"
  /\ pc' = "parsed"
  /\ output' = parse_line(input.line, DEFAULT_CONFIG)
  /\ UNCHANGED <<FUNCTIONS, dicts, configs, history, input>>

NextLex == Tokenize \/ ParseTokens

SpecLex == InitLex /\ [][NextLex]_vars

\* C15 as stated: parse_line either consumes every token of the stream into
\* the tree it returns or raises DRLSyntaxError; '2 + 3)', 'max(5, 10' and
\* '2 +' raise DRLSyntaxError.
C15_AllTokensConsumedOrSyntaxError ==
  pc = "parsed" =>
    /\ \/ output.exc = "DRLSyntaxError"
       \/ output.pos = Len(tokenize(input.line, DEFAULT_CONFIG).tokens)
    /\ input.line \in {<<"2", " ", "+", " ", "3", ")">>, <<"m", "a", "x", "(", "5", ",", " ", "1", "0">>, <<"2", " ", "+">>} =>
         output.exc = "DRLSyntaxError"

\* parse_line('2 + 3)') returned the tree of 2 + 3 and left the ')' unread
C15_Witness ==
  /\ pc = "parsed"
  /\ input.line = <<"2", " ", "+", " ", "3", ")">>
  /\ output.exc = ""
  /\ output.pos = 3
  /\ Len(tokenize(input.line, DEFAULT_CONFIG).tokens) = 4

\* the text without its whitespace, and the texts of the tokens in a row
NotSpace(c) == ~isspace(c)
RemoveSpaces(e) == SelectSeq(e, NotSpace)

RECURSIVE TokenTexts(_)
TokenTexts(tokens) ==
  IF tokens = <<>> THEN <<>> ELSE Head(tokens).value \o TokenTexts(Tail(tokens))

\* The token grammar as the documentation gives it, for texts without
\* references and strings: the end of the number or name that starts at i
RECURSIVE NumberRunEnd(_, _, _)
NumberRunEnd(e, i, points) ==
  IF i >= Len(e) THEN i
  ELSE IF e[i + 1] \in Digit THEN NumberRunEnd(e, i + 1, points)
  ELSE IF e[i + 1] = "." /\ points = 0 THEN NumberRunEnd(e, i + 1, 1)
  ELSE i

RECURSIVE NameRunEnd(_, _)
NameRunEnd(e, i) ==
  IF i < Len(e) /\ e[i + 1] \in Letter \cup Digit \cup {"_"}
  THEN NameRunEnd(e, i + 1) ELSE i

\* the index of the first character, outside whitespace and tokens, that
\* starts no token of the grammar (Len(e) when there is none)
RECURSIVE FirstUnstarted(_, _)
FirstUnstarted(e, i) ==
  IF i >= Len(e) THEN Len(e)
  ELSE IF e[i + 1] \in Whitespace THEN FirstUnstarted(e, i + 1)
  ELSE IF e[i + 1] \in {"+", "-", "*", "/", "%", "^", "(", ")", ","}
  THEN FirstUnstarted(e, i + 1)
  ELSE IF i + 1 < Len(e) /\ e[i + 1] \in {"=", "!", "<", ">"} /\ e[i + 2] = "="
  THEN FirstUnstarted(e, i + 2)
  ELSE IF e[i + 1] \in {"<", ">"} THEN FirstUnstarted(e, i + 1)
  ELSE IF e[i + 1] \in Digit
          \/ (e[i + 1] = "." /\ i + 1 < Len(e) /\ e[i + 2] \in Digit)
  THEN FirstUnstarted(e, NumberRunEnd(e, i, 0))
  ELSE IF e[i + 1] \in Letter \cup {"_"}
  THEN FirstUnstarted(e, NameRunEnd(e, i))
  ELSE i

RECURSIVE StringUnclosed(_, _)
StringUnclosed(body, quote) ==
  IF body = <<>> THEN TRUE
  ELSE IF Head(body) = "\\" /\ Len(body) > 1
  THEN StringUnclosed(Tail(Tail(body)), quote)
  ELSE IF Head(body) = quote THEN FALSE
  ELSE StringUnclosed(Tail(body), quote)

\* the text ends inside the reference or the string that input.opener opens
EndsInside ==
  IF Len(input.opener) = 1 THEN StringUnclosed(input.body, input.opener[1])
  ELSE ~CharIn(CASE input.opener[2] = "(" -> ")"
                 [] input.opener[2] = "[" -> "]"
                 [] OTHER -> "}", input.body)

MaxSymbol == 2
SymbolChars == {"$", "(", ")", " ", ">"}
Symbols == UNION {[1..n -> SymbolChars] : n \in 0..MaxSymbol}

InitConfig ==
  /\ RegistryIdle
  /\ pc = "start"
  /\ output = [exc |-> "", config |-> DEFAULT_CONFIG]
  /\ input \in [ref_indicator : Symbols, key_delimiter : Symbols]

\* DRLConfig(ref_indicator, key_delimiter)
Construct ==
  /\ pc = "start"
  /\ pc' = "constructed"
  /\ output' = DRLConfig(input.ref_indicator, input.key_delimiter, NoFunctions,
                         FALSE)
  /\ UNCHANGED <<FUNCTIONS, dicts, configs, history, input>>

NextConfig == Construct

SpecConfig == InitConfig /\ [][NextConfig]_vars

\* the symbol holds one of the reserved characters ( ) , ' " or whitespace
HasReserved(symbol) ==
  \E n \in 1..Len(symbol) :
    symbol[n] \in {"(", ")", ",", "'", "\""} \cup Whitespace

\* C17 as stated: DRLConfig raises ValueError for every ref_indicator or
\* key_delimiter, of any length, that holds a reserved character, so the
\* symbols of every constructed config are free of reserved characters.
C17_ReservedCharactersRejected ==
  pc = "constructed" =>
    /\ HasReserved(input.ref_indicator) \/ HasReserved(input.key_delimiter) =>
         output.exc = "ValueError"
    /\ output.exc = "" =>
         /\ ~HasReserved(output.config.ref_indicator)
         /\ ~HasReserved(output.config.key_delimiter)

\* DRLConfig('$(', '>') was constructed
C17_Witness ==
  /\ pc = "constructed"
  /\ input.ref_indicator = <<"$", "(">>
  /\ input.key_delimiter = <<">">>
  /\ output.exc = ""
  /\ output.config.ref_indicator = <<"$", "(">>

(***************************************************************************)
(* SpecContext: the caller's context dict across calls of interpret,       *)
(* interpolate, interpolate_dict and resolve_reference.  The context is an *)
(* object of the caller: an argument that is a reference is the very       *)
(* object the context stores, so a callable that changes its argument in   *)
(* place changes the context.                                              *)
(***************************************************************************)
\* FUNCTIONS with shuffle, as functions.py defines it
ContextFunctions ==
  [n \in DOMAIN InitialFunctions \cup {<<"s", "h", "u", "f", "f", "l", "e">>} |->
     IF n = <<"s", "h", "u", "f", "f", "l", "e">> THEN "shuffle" ELSE InitialFunctions[n]]

\* {'l': [1, 2, 3], 'n': {'l': [1, 2]}, 's': 'ab'} and two more
CallerContexts ==
  {DictV(<<Item(<<"l">>, ListV(l)), Item(<<"n">>, DictV(<<Item(<<"l">>, ListV(nl))>>)),
           Item(<<"s">>, StrV(s))>>) :
     l \in {<<IntV(1), IntV(2), IntV(3)>>, <<IntV(1), IntV(1)>>, <<>>},
     nl \in {<<IntV(1), IntV(2)>>, <<StrV(<<"a">>)>>},
     s \in {<<"a", "b">>, <<>>}}

ContextPaths == {<<<<"l">>>>, <<<<"n">>, <<"l">>>>, <<<<"s">>>>, <<<<"n">>>>, <<<<"m", "i", "s", "s", "i", "n", "g">>>>}
ContextCallNames == {<<"s", "h", "u", "f", "f", "l", "e">>, <<"l", "e", "n">>, <<"n", "o", "f", "u", "n", "c">>}

\* name($(path)): a call whose argument is a reference
ReferenceCall(name, segments) ==
  name \o <<"(", "$", "(">> \o join(<<">">>, segments) \o <<")", ")">>

\* name($(path) + $(path)): a call whose argument is a value built by the line
SumCall(name, segments) ==
  name \o <<"(", "$", "(">> \o join(<<">">>, segments) \o <<")", " ", "+", " ", "$", "(">>
       \o join(<<">">>, segments) \o <<")", ")">>

ContextCall(form, line, segments, context) ==
  [form |-> form, line |-> line, segments |-> segments, context |-> context,
   before |-> context]

ContextCalls ==
  {ContextCall("reference", ReferenceCall(name, segments), segments, context) :
     name \in ContextCallNames, segments \in ContextPaths,
     context \in CallerContexts}
  \cup {ContextCall("sum", SumCall(name, segments), segments, context) :
          name \in ContextCallNames, segments \in ContextPaths,
          context \in CallerContexts}

\* the value with the value stored at the path of keys replaced
RECURSIVE StoreAt(_, _, _)
StoreAt(value, keys, new) ==
  IF keys = <<>> THEN new
  ELSE DictV([n \in 1..Len(value.d) |->
                IF value.d[n].key = Head(keys)
                THEN Item(value.d[n].key, StoreAt(value.d[n].val, Tail(keys), new))
                ELSE value.d[n]])

\* the argument of the call of the line is the object stored in the context
\* at the path, not a value the line built
ArgumentIsStoredObject(form, context, segments) ==
  form = "reference" /\ Stored(context, segments).status = "found"

\* the contexts a call can leave behind: random.shuffle reorders the list it
\* is given in place; the other callables and the core assign to nothing
ContextsAfter(form, context, segments, log) ==
  IF /\ ArgumentIsStoredObject(form, context, segments)
     /\ \E k \in 1..Len(log) :
          /\ log[k].callable = "shuffle"
          /\ Len(log[k].args) = 1
          /\ log[k].args[1].t = "list"
  THEN {StoreAt(context, segments, ListV(l)) :
          l \in Shuffled(Stored(context, segments).val.l)}
  ELSE {context}

InitContext ==
  /\ FUNCTIONS = ContextFunctions
  /\ dicts = <<>>
  /\ configs = <<>>
  /\ history = <<>>
  /\ pc = "start"
  /\ output = NoOutput
  /\ input \in ContextCalls

\* interpret(line, context)
InterpretInContext ==
  /\ pc = "start"
  /\ pc' = "interpreted"
  /\ output' = interpret(input.line, input.context, DEFAULT_CONFIG, FUNCTIONS)
  /\ \E after \in ContextsAfter(input.form, input.context, input.segments,
                                output'.log) :
       input' = [input EXCEPT !.context = after]
  /\ UNCHANGED <<FUNCTIONS, dicts, configs, history>>

\* interpolate('{% line %}', context): the block is evaluated by interpret
InterpolateInContext ==
  /\ pc = "start"
  /\ pc' = "interpolated"
  /\ output' = Returned(interpolate(<<"{", "%", " ">> \o input.line \o <<" ", "%", "}">>, input.context,
                                    DEFAULT_CONFIG, FUNCTIONS), <<>>, <<>>)
  /\ \E after \in ContextsAfter(input.form, input.context, input.segments,
                    interpret(input.line, input.context, DEFAULT_CONFIG,
                              FUNCTIONS).log) :
       input' = [input EXCEPT !.context = after]
  /\ UNCHANGED <<FUNCTIONS, dicts, configs, history>>

\* interpolate_dict({'k': '{% line %}'}, context)
InterpolateDictInContext ==
  /\ pc = "start"
  /\ pc' = "dict interpolated"
  /\ output' = Returned(interpolate_dict(
                 DictV(<<Item(<<"k">>, StrV(<<"{", "%", " ">> \o input.line \o <<" ", "%", "}">>))>>),
                 input.context, DEFAULT_CONFIG, FUNCTIONS), <<>>, <<>>)
  /\ \E after \in ContextsAfter(input.form, input.context, input.segments,
                    interpret(input.line, input.context, DEFAULT_CONFIG,
                              FUNCTIONS).log) :
       input' = [input EXCEPT !.context = after]
  /\ UNCHANGED <<FUNCTIONS, dicts, configs, history>>

\* resolve_reference(path, context): no callable is called
ResolveInContext ==
  /\ pc = "start"
  /\ pc' = "resolved"
  /\ output' = Returned(resolve_reference(join(<<">">>, input.segments),
                          input.context, DEFAULT_CONFIG, "required", <<>>),
                        <<>>, <<>>)
  /\ UNCHANGED <<FUNCTIONS, dicts, configs, history, input>>

NextContext ==
  \/ InterpretInContext
  \/ InterpolateInContext
  \/ InterpolateDictInContext
  \/ ResolveInContext

SpecContext == InitContext /\ [][NextContext]_vars

\* C20 as stated: after a call of interpret, interpolate, interpolate_dict or
\* resolve_reference, whether it returned or raised and whatever registered
\* function the line called, the context is what it was before the call.
C20_ContextUnchanged ==
  pc # "start" => input.context = input.before

\* interpret('shuffle($(l))', {'l': [1, 2, 3], ...}) returned None and left
\* the caller's list as [3, 2, 1]
C20_Witness ==
  /\ pc = "interpreted"
  /\ input.line = <<"s", "h", "u", "f", "f", "l", "e", "(", "$", "(", "l", ")", ")">>
  /\ DictGet(input.before, <<"l">>) = ListV(<<IntV(1), IntV(2), IntV(3)>>)
  /\ DictGet(input.context, <<"l">>) = ListV(<<IntV(3), IntV(2), IntV(1)>>)
  /\ output.exc = ""
  /\ output.val = NoneV

(***************************************************************************)
(* resolve_reference on sequences and scalars (SpecResolve)                *)
(***************************************************************************)
\* resolve_reference was called with the Required behavior, directly or
\* through a line read as the one reference it was written as
ResolvedRequired ==
  /\ pc = "resolved" \/ (pc = "interpreted" /\ ReadAsOneReference)
  /\ input.behavior = "required"

\* C21: on a sequence of length n an integer segment k yields element k for
\* 0 <= k < n and element n + k for -n <= k < 0; any other integer raises
\* DRLReferenceError under the Required behavior, a segment that is not an
\* integer raises DRLTypeError, and any segment applied to a scalar raises
\* DRLTypeError.
C21_SequenceIndexing ==
  LET st == Stored(input.context, input.segments)
  IN ResolvedRequired =>
       /\ st.status = "found" => output.exc = "" /\ output.val = st.val
       /\ st.status = "out of range" => output.exc = "DRLReferenceError"
       /\ st.status = "not an index" => output.exc = "DRLTypeError"
       /\ st.status = "scalar" => output.exc = "DRLTypeError"

\* l>-1>0 on {l: [1, {b: 0}, [2]]}: the last element of l, then its first
C21_Witness ==
  /\ pc = "resolved"
  /\ input.behavior = "required"
  /\ input.segments = <<<<"l">>, <<"-", "1">>, <<"0">>>>
  /\ input.context = MixedContext
  /\ output.exc = ""
  /\ output.val = IntV(2)

\* C22: under the Optional and LiteralFallback behaviors resolve_reference
\* never raises: a missing key, an index out of range, a segment that is not
\* an integer on a sequence and navigation into a scalar, at any segment,
\* yield None (Optional) and the supplied original reference text
\* (LiteralFallback).
C22_OptionalAndFallbackNeverRaise ==
  LET st == Stored(input.context, input.segments)
  IN pc = "resolved" /\ input.behavior \in {"optional", "passthrough"} =>
       /\ output.exc = ""
       /\ st.status # "found" /\ input.behavior = "optional" =>
            output.val = NoneV
       /\ st.status # "found" /\ input.behavior = "passthrough" =>
            output.val = StrV(<<"$">> \o input.reference)

\* l>x>a: the second of three segments is not an integer on a sequence
C22_Witness ==
  /\ pc = "resolved"
  /\ input.behavior = "passthrough"
  /\ Len(input.segments) = 3
  /\ Stored(input.context, input.segments).status = "not an index"
  /\ output.exc = ""
  /\ output.val = StrV(<<"$">> \o input.reference)

(***************************************************************************)
(* SpecCalls: interpret on lines whose operands and arguments are function *)
(* calls.  The log of an outcome lists the calls execute dispatched, in    *)
(* the order in which they were made.                                      *)
(***************************************************************************)
MaxCallArgs == 3

\* FUNCTIONS once f and g (lambda *args: 'f1' / 'f2') and terr (raises
\* TypeError) were registered
CallsFunctions ==
  [n \in DOMAIN InitialFunctions \cup {<<"f">>, <<"g">>, <<"t", "e", "r", "r">>} |->
     CASE n = <<"f">> -> "f1"
       [] n = <<"g">> -> "f2"
       [] n = <<"t", "e", "r", "r">> -> "raise_TypeError"
       [] OTHER -> InitialFunctions[n]]

\* an operand: its text, the calls its evaluation dispatches and whether it
\* raises
Operand(text, calls, raises) == [text |-> text, calls |-> calls, raises |-> raises]

CallOperands ==
  {Operand(<<"f", "(", ")">>, <<<<"f">>>>, FALSE), Operand(<<"g", "(", ")">>, <<<<"g">>>>, FALSE),
   Operand(<<"t", "e", "r", "r", "(", ")">>, <<<<"t", "e", "r", "r">>>>, TRUE), Operand(<<"$", "(", "m", "i", "s", "s", "i", "n", "g", ")">>, <<>>, TRUE),
   Operand(<<"1">>, <<>>, FALSE)}

LogicalOperands ==
  CallOperands \cup {Operand(<<"F", "a", "l", "s", "e">>, <<>>, FALSE), Operand(<<"T", "r", "u", "e">>, <<>>, FALSE)}

CallLine(kind, line, head, operands) ==
  [kind |-> kind, line |-> line, head |-> head, operands |-> operands]

\* left and right, left or right
LogicalCallLines ==
  {CallLine("logical", l.text \o <<" ">> \o op \o <<" ">> \o r.text, op, <<l, r>>) :
     l \in LogicalOperands, r \in LogicalOperands, op \in {<<"a", "n", "d">>, <<"o", "r">>}}

OperandLists == UNION {[1..n -> CallOperands] : n \in 0..MaxCallArgs}

\* head(a1, ..., an)
ArgumentCallLines ==
  {CallLine("call",
            head \o <<"(">> \o join(<<",", " ">>, [n \in 1..Len(a) |-> a[n].text]) \o <<")">>,
            head, a) :
     head \in {<<"f">>, <<"n", "o", "f", "u", "n", "c">>}, a \in OperandLists}

\* a + b, (a + b) + c, c + (a + b), f(a + b)
ArithmeticOperands == {o \in CallOperands : o.text # <<"$", "(", "m", "i", "s", "s", "i", "n", "g", ")">>}

ArithmeticCallLines ==
  {CallLine("sum", a.text \o <<" ", "+", " ">> \o b.text, <<>>, <<a, b>>) :
     a \in ArithmeticOperands, b \in ArithmeticOperands}
  \cup {CallLine("argument", <<"f", "(">> \o a.text \o <<" ", "+", " ">> \o b.text \o <<")">>, <<>>,
                 <<a, b>>) :
          a \in ArithmeticOperands, b \in ArithmeticOperands}
  \cup {CallLine("left sum",
                 <<"(">> \o a.text \o <<" ", "+", " ">> \o b.text \o <<")", " ", "+", " ">> \o c.text, <<>>,
                 <<a, b, c>>) :
          a \in ArithmeticOperands, b \in ArithmeticOperands,
          c \in ArithmeticOperands}
  \cup {CallLine("right sum",
                 c.text \o <<" ", "+", " ", "(">> \o a.text \o <<" ", "+", " ">> \o b.text \o <<")">>, <<>>,
                 <<c, a, b>>) :
          a \in ArithmeticOperands, b \in ArithmeticOperands,
          c \in ArithmeticOperands}

InitCalls ==
  /\ FUNCTIONS = CallsFunctions
  /\ dicts = <<>>
  /\ configs = <<>>
  /\ history = <<>>
  /\ pc = "start"
  /\ output = NoOutput
  /\ input \in LogicalCallLines \cup ArgumentCallLines \cup ArithmeticCallLines

\* interpret(line, {})
InterpretCalls ==
  /\ pc = "start"
  /\ pc' = "interpreted"
  /\ output' = interpret(input.line, DictV(<<>>), DEFAULT_CONFIG, FUNCTIONS)
  /\ UNCHANGED <<FUNCTIONS, dicts, configs, history, input>>

NextCalls == InterpretCalls

SpecCalls == InitCalls /\ [][NextCalls]_vars

\* the names of the functions dispatched, in order
DispatchedNames == [n \in 1..Len(output.log) |-> output.log[n].fn]

\* the calls of the operands in order, up to and including the first operand
\* that raises
RECURSIVE CallsUntilFailure(_)
CallsUntilFailure(operands) ==
  IF operands = <<>> THEN <<>>
  ELSE IF Head(operands).raises THEN Head(operands).calls
  ELSE Head(operands).calls \o CallsUntilFailure(Tail(operands))

NoneRaises(operands) == \A n \in 1..Len(operands) : ~operands[n].raises

\* C23: an 'and' / 'or' node evaluates its left operand and then its right
\* operand, each exactly once, before it decides the result, also when the
\* left operand alone decides it: the calls dispatched are those of the left
\* operand followed by those of the right operand ('False and f()' and
\* 'True or f()' call f), and with neither operand raising the line has a
\* value.
C23_BothOperandsEvaluatedOnce ==
  pc = "interpreted" /\ input.kind = "logical" =>
    /\ DispatchedNames = CallsUntilFailure(input.operands)
    /\ NoneRaises(input.operands) => output.exc = ""

\* 'False and f()' is False and has called f
C23_Witness ==
  /\ pc = "interpreted"
  /\ input.line = <<"F", "a", "l", "s", "e", " ", "a", "n", "d", " ", "f", "(", ")">>
  /\ output.exc = ""
  /\ output.val = BoolV(FALSE)
  /\ DispatchedNames = <<<<"f">>>>

\* C24: the arguments of a call are evaluated from left to right and the
\* callable is invoked only after all of them succeeded: when argument i
\* raises, no later argument is evaluated and the callable is not invoked.
C24_ArgumentsLeftToRightThenCall ==
  pc = "interpreted" /\ input.kind = "call" =>
    DispatchedNames =
      CallsUntilFailure(input.operands)
        \o (IF NoneRaises(input.operands) /\ input.head \in DOMAIN FUNCTIONS
            THEN <<input.head>> ELSE <<>>)

\* f(g(), terr(), f()): g is called, terr raises, neither f is called
C24_Witness ==
  /\ pc = "interpreted"
  /\ input.line = <<"f", "(", "g", "(", ")", ",", " ", "t", "e", "r", "r", "(", ")", ",", " ", "f", "(", ")", ")">>
  /\ output.exc = "DRLTypeError"
  /\ DispatchedNames = <<<<"g">>, <<"t", "e", "r", "r">>>>

\* the number of function calls written in the line
CallSites(line) ==
  Cardinality({n \in 2..Len(line) : line[n] = "(" /\ isalpha(line[n - 1])})

\* C27 as stated: during one interpret call every node is evaluated at most
\* once, so no more calls are dispatched than the line holds, on success and
\* on error.
C27_EveryCallDispatchedAtMostOnce ==
  pc = "interpreted" => Len(output.log) <= CallSites(input.line)

\* '(f() + 1) + 1': the one call of f in the line was dispatched twice
C27_Witness ==
  /\ pc = "interpreted"
  /\ input.line = <<"(", "f", "(", ")", " ", "+", " ", "1", ")", " ", "+", " ", "1">>
  /\ output.exc = "DRLTypeError"
  /\ DispatchedNames = <<<<"f">>, <<"f">>>>

(***************************************************************************)
(* SpecConvert: convert_arg_types on the callables list_get, if_function,  *)
(* len and lambda *args, with argument lists over a few values             *)
(***************************************************************************)
MaxConvertArgs == 3

ConvertFunctions == {"list_get", "if_function", "len", "f1"}

\* '1', 'x', 1, 2.5, [7], None
ConvertValues ==
  {StrV(<<"1">>), StrV(<<"x">>), IntV(1), FloatV(5, 2), ListV(<<IntV(7)>>), NoneV}

ConvertArgLists == UNION {[1..n -> ConvertValues] : n \in 0..MaxConvertArgs}

InitConvert ==
  /\ RegistryIdle
  /\ pc = "start"
  /\ output = NoOutput
  /\ \E function \in ConvertFunctions, args \in ConvertArgLists :
       input = [function |-> function, args |-> args]

\* convert_arg_types(function, *args); the list returned is the value
ConvertArgTypes ==
  /\ pc = "start"
  /\ pc' = "converted"
  /\ output' = LET r == convert_arg_types(input.function, input.args)
               IN Outcome(r.exc, ListV(r.args), <<>>, <<>>)
  /\ UNCHANGED <<FUNCTIONS, dicts, configs, history, input>>

NextConvert == ConvertArgTypes

SpecConvert == InitConvert /\ [][NextConvert]_vars

\* the hint of parameter n of the function: "none" for a variadic or
\* unannotated parameter and beyond the parameter list, "Any" being no
\* scalar type
HintAt(function, n) ==
  LET params == Signature(function).params
  IN IF n > Len(params) THEN "none"
     ELSE IF params[n].kind = "var" \/ params[n].hint = "Any" THEN "none"
     ELSE params[n].hint

\* what the hint of its own parameter makes of an argument: the argument
\* itself when there is no hint, when it has the hinted type already or when
\* the conversion fails, and else its conversion
TreatedAlone(hint, arg) ==
  IF hint = "none" THEN arg
  ELSE IF Truthy(IsInstance(arg, hint).val) THEN arg
  ELSE IF Cast(hint, arg).exc # "" THEN arg
  ELSE Cast(hint, arg).val

\* C25 as stated: convert_arg_types never raises and returns a list as long
\* as its arguments, in which position i holds what the hint of parameter i
\* alone makes of argument i, whatever the hints of the other parameters.
C25_EachArgumentTreatedAlone ==
  pc = "converted" =>
    /\ output.exc = ""
    /\ Len(output.val.l) = Len(input.args)
    /\ \A n \in 1..Len(input.args) :
         output.val.l[n] = TreatedAlone(HintAt(input.function, n), input.args[n])

\* list_get([7], '1', None): the index stays '1', while list_get([7], '1')
\* makes it 1
C25_Witness ==
  /\ pc = "converted"
  /\ input.function = "list_get"
  /\ input.args = <<ListV(<<IntV(7)>>), StrV(<<"1">>), NoneV>>
  /\ output.exc = ""
  /\ output.val.l[2] = StrV(<<"1">>)
  /\ convert_arg_types("list_get", SubSeq(input.args, 1, 2)).args[2] = IntV(1)

(***************************************************************************)
(* SpecBare: tokenize, with the default config, on lines that start with a *)
(* bare reference                                                          *)
(***************************************************************************)
MaxBare == 4

BareChars == {"u", ">", " ", "=", "1", "(", "[", "+"}
BareTexts == UNION {[1..n -> BareChars] : n \in 0..MaxBare}

\* $a, then spaces, then a word, then what follows the word
KeywordWords == {<<"a", "n", "d">>, <<"o", "r">>, <<"n", "o", "t">>}
KeywordGaps == {<<>>, <<" ">>, <<" ", " ">>}
KeywordTails == {<<>>, <<" ", "b">>, <<"b">>, <<"1">>, <<"_">>, <<"(">>, <<" ", ">", "=", " ", "1">>}

BareLine(kind, line, word, gap, tail) ==
  [kind |-> kind, line |-> line, word |-> word, gap |-> gap, tail |-> tail]

BareLines ==
  {BareLine("text", <<"$">> \o t, <<>>, <<>>, <<>>) : t \in BareTexts}
  \cup {BareLine("keyword", <<"$", "a">> \o gap \o word \o tail, word, gap, tail) :
          word \in KeywordWords, gap \in KeywordGaps, tail \in KeywordTails}
  \cup {BareLine("example", <<"$", "u", "s", "e", "r", ">", "a", "g", "e", " ", ">", "=", " ", "1", "8">>, <<>>, <<>>, <<>>),
        BareLine("example", <<"$", "s", "c", "o", "r", "e", " ", ">", "=", " ", "9", "0">>, <<>>, <<>>, <<>>)}

InitBare ==
  /\ RegistryIdle
  /\ pc = "start"
  /\ output = NoOutput
  /\ input \in BareLines

\* tokenize(line)
TokenizeBare ==
  /\ pc = "start"
  /\ pc' = "tokenized"
  /\ output' = tokenize(input.line, DEFAULT_CONFIG)
  /\ UNCHANGED <<FUNCTIONS, dicts, configs, history, input>>

NextBare == TokenizeBare

SpecBare == InitBare /\ [][NextBare]_vars

\* the character at place n (counted from 1) belongs to the path: a letter
\* or digit, or a '>' that is followed by a character other than whitespace
\* and the characters = ! < > ( ) , ' " + - * / % ^
InPath(line, n) ==
  \/ isalnum(line[n])
  \/ /\ line[n] = ">"
     /\ n < Len(line)
     /\ ~isspace(line[n + 1])
     /\ line[n + 1] \notin {"=", "!", "<", ">", "(", ")", ",", "'", "\"", "+",
                            "-", "*", "/", "%", "^"}

\* the first place after the $ that does not belong to the path
RECURSIVE PathEnd(_, _)
PathEnd(line, n) ==
  IF n > Len(line) \/ ~InPath(line, n) THEN n ELSE PathEnd(line, n + 1)

IsToken(node, type, value) ==
  node.k = "Token" /\ node.type = type /\ node.value = value

\* the word is followed by the end of the line or by a character that is no
\* letter, digit or underscore
WholeWord(tail) == tail = <<>> \/ ~(isalnum(Head(tail)) \/ Head(tail) = "_")

\* C26: with the default config a '>' in a bare reference that is followed
\* by whitespace, the end of input or one of = ! < > ( ) , ' " + - * / % ^
\* ends the reference and is lexed as a comparison; followed by any other
\* character it continues the path; '$user>age >= 18' is REFERENCE
\* 'user>age', COMPARISON '>=', NUMBER '18'; a space before a whole-word
\* and / or / not ends the reference.
C26_BareReferenceEnds ==
  LET line == input.line
      end == PathEnd(line, 2)
      tokens == output.tokens
  IN pc = "tokenized" =>
       /\ input.kind = "text" /\ end <= Len(line) /\ line[end] = ">" =>
            /\ output.exc # "" => output.position >= end
            /\ output.exc = "" =>
                 /\ Len(tokens) >= 2
                 /\ IsToken(tokens[1], "REFERENCE", SubSeq(line, 2, end - 1))
                 /\ tokens[2].type = "COMPARISON"
                 /\ Head(tokens[2].value) = ">"
       /\ input.kind = "text" /\ end > Len(line) =>
            /\ output.exc = ""
            /\ Len(tokens) = 1
            /\ IsToken(tokens[1], "REFERENCE", Tail(line))
       /\ input.line = <<"$", "u", "s", "e", "r", ">", "a", "g", "e", " ", ">", "=", " ", "1", "8">> =>
            /\ output.exc = ""
            /\ Len(tokens) = 3
            /\ IsToken(tokens[1], "REFERENCE", <<"u", "s", "e", "r", ">", "a", "g", "e">>)
            /\ IsToken(tokens[2], "COMPARISON", <<">", "=">>)
            /\ IsToken(tokens[3], "NUMBER", <<"1", "8">>)
       /\ input.kind = "keyword" /\ input.gap # <<>> /\ WholeWord(input.tail) =>
            /\ output.exc = "" => IsToken(tokens[1], "REFERENCE", <<"a">>)
            /\ output.exc = "" =>
                 /\ Len(tokens) >= 2
                 /\ tokens[2].type = (IF input.word = <<"n", "o", "t">> THEN "NOT" ELSE "LOGICAL")
                 /\ tokens[2].value = input.word
            /\ output.exc # "" => output.position > 2 + Len(input.gap)

\* '$u>u>': the first '>' continues the path, the second one ends it
C26_Witness ==
  /\ pc = "tokenized"
  /\ input.line = <<"$", "u", ">", "u", ">">>
  /\ output.exc = ""
  /\ Len(output.tokens) = 2
  /\ IsToken(output.tokens[1], "REFERENCE", <<"u", ">", "u">>)
  /\ IsToken(output.tokens[2], "COMPARISON", <<">">>)

(***************************************************************************)
(* SpecScan: the while loop of tokenize, one iteration at a time.  output  *)
(* holds the locals of the loop: the scan index i, the tokens so far and   *)
(* the number of iterations made.                                          *)
(***************************************************************************)
MaxScan == 3

ScanChars == {"$", ">", " ", "(", "'", "1", "a"}
ScanLines == UNION {[1..n -> ScanChars] : n \in 0..MaxScan}

\* DRLConfig(), DRLConfig('>', '$'), DRLConfig('$$', '>>')
ScanConfigs ==
  {DEFAULT_CONFIG, Config(<<">">>, <<"$">>, NoFunctions),
   Config(<<"$", "$">>, <<">", ">">>, NoFunctions)}

\* the locals after an iteration that did not raise
ScanTo(next, tokens) ==
  [exc |-> "", position |-> -1, next |-> next, tokens |-> tokens]

\* the locals after an iteration that raised DRLSyntaxError at position
ScanErr(position) ==
  [exc |-> "DRLSyntaxError", position |-> position, next |-> position,
   tokens |-> <<>>]

\* an iteration on whitespace that leaves the index where it is
SkipSpace_stays(i) == ScanTo(i, <<>>)

\* if expression[i].isspace(): i += 1; continue
SkipSpace(i) == ScanTo(i + 1, <<>>)

\* a bracketed reference closed at index close
ScanBracketed(e, i, close) ==
  IF close >= Len(e) THEN ScanErr(i)
  ELSE ScanTo(close + 1, <<Token("REFERENCE", strip(Slice(e, i + 2, close)),
                                 Behavior(e[i + 2]))>>)

\* a string literal whose scan gave sc
ScanString(i, sc) ==
  IF ~sc.closed THEN ScanErr(i)
  ELSE ScanTo(sc.end + 1, <<Token("STRING", sc.string, "required")>>)

\* a name that ends at index stop, the next non-space character being at j
ScanName(e, name, stop, j) ==
  ScanTo(stop,
         <<Token(IF name \in {<<"T", "r", "u", "e">>, <<"F", "a", "l", "s", "e">>} THEN "BOOLEAN"
                 ELSE IF name \in {<<"a", "n", "d">>, <<"o", "r">>} THEN "LOGICAL"
                 ELSE IF name = <<"n", "o", "t">> THEN "NOT"
                 ELSE IF j < Len(e) /\ e[j + 1] = "(" THEN "FUNCTION"
                 ELSE "IDENTIFIER", name, "required")>>)

\* one iteration of the while loop at index i < len(expression)
ScanStep(e, config, i) ==
  IF isspace(e[i + 1]) THEN SkipSpace(i)
  ELSE IF <<e[i + 1]>> = config.ref_indicator
  THEN IF i + 1 < Len(e) /\ e[i + 2] \in {"(", "[", "{"}
       THEN ScanBracketed(e, i, FindChar(e, Closer(e[i + 2]), i + 2))
       ELSE ScanTo(BareReferenceEnd(e, config, i + 1),
                   <<Token("REFERENCE",
                           strip(Slice(e, i + 1, BareReferenceEnd(e, config, i + 1))),
                           "required")>>)
  ELSE IF e[i + 1] \in {"\"", "'"}
  THEN ScanString(i, StringScan(e, e[i + 1], i + 1, <<>>))
  ELSE IF e[i + 1] = "(" THEN ScanTo(i + 1, <<Token("LPAREN", <<"(">>, "required")>>)
  ELSE IF e[i + 1] = ")" THEN ScanTo(i + 1, <<Token("RPAREN", <<")">>, "required")>>)
  ELSE IF e[i + 1] = "," THEN ScanTo(i + 1, <<Token("COMMA", <<",">>, "required")>>)
  ELSE IF e[i + 1] \in {"+", "-", "*", "/", "^", "%"}
  THEN ScanTo(i + 1, <<Token("OPERATOR", <<e[i + 1]>>, "required")>>)
  ELSE IF i + 1 < Len(e) /\ Slice(e, i, i + 2) \in {<<"=", "=">>, <<"!", "=">>, <<"<", "=">>, <<">", "=">>}
  THEN ScanTo(i + 2, <<Token("COMPARISON", Slice(e, i, i + 2), "required")>>)
  ELSE IF e[i + 1] \in {"<", ">"}
  THEN ScanTo(i + 1, <<Token("COMPARISON", <<e[i + 1]>>, "required")>>)
  ELSE IF e[i + 1] = "!" THEN ScanErr(i)
  ELSE IF isdigit(e[i + 1]) \/ (e[i + 1] = "." /\ i + 1 < Len(e) /\ isdigit(e[i + 2]))
  THEN ScanTo(NumberEnd(e, i, FALSE),
              <<Token("NUMBER", Slice(e, i, NumberEnd(e, i, FALSE)), "required")>>)
  ELSE IF isalpha(e[i + 1]) \/ e[i + 1] = "_"
  THEN ScanName(e, Slice(e, i, NameEnd(e, i)), NameEnd(e, i),
                SkipSpaces(e, NameEnd(e, i)))
  ELSE ScanErr(i)

\* the locals of the loop before its first iteration
NotScanned == [exc |-> "", tokens |-> <<>>, position |-> -1, i |-> 0, iterations |-> 0]

InitScan ==
  /\ RegistryIdle
  /\ pc = "start"
  /\ input = [line |-> <<>>, config |-> DEFAULT_CONFIG]
  /\ output = NotScanned

\* tokenize(line, config) is called: tokens = []; i = 0
StartScan ==
  /\ pc = "start"
  /\ pc' = "scanning"
  /\ \E line \in ScanLines, config \in ScanConfigs :
       input' = [line |-> line, config |-> config]
  /\ output' = NotScanned
  /\ UNCHANGED <<FUNCTIONS, dicts, configs, history>>

\* the locals after the iteration whose outcome is step
Scanned(step) ==
  [exc |-> step.exc, position |-> step.position, i |-> step.next,
   tokens |-> IF step.exc = "" THEN output.tokens \o step.tokens ELSE <<>>,
   iterations |-> output.iterations + 1]

\* while i < len(expression): one iteration
Iterate ==
  /\ pc = "scanning"
  /\ output.i < Len(input.line)
  /\ output' = Scanned(ScanStep(input.line, input.config, output.i))
  /\ pc' = IF output'.exc = "" THEN "scanning" ELSE "raised"
  /\ UNCHANGED <<FUNCTIONS, dicts, configs, history, input>>

\* return tokens
ReturnTokens ==
  /\ pc = "scanning"
  /\ output.i >= Len(input.line)
  /\ pc' = "returned"
  /\ UNCHANGED <<FUNCTIONS, dicts, configs, history, input, output>>

NextScan == StartScan \/ Iterate \/ ReturnTokens

SpecScan == InitScan /\ [][NextScan]_vars

\* the interpreter runs the loop on: an enabled iteration is taken
SpecScanFair == SpecScan /\ WF_vars(NextScan)

\* an iteration raises or strictly increases the scan index
IterationAdvances ==
  pc = "scanning" /\ output' # output =>
    output'.exc = "DRLSyntaxError" \/ output'.i > output.i

\* what the loop ended with is what tokenize returns or raises
EndsAsTokenize ==
  pc \in {"returned", "raised"} =>
    LET t == tokenize(input.line, input.config)
    IN /\ output.exc = t.exc
       /\ output.tokens = t.tokens
       /\ output.position = t.position

\* C28: tokenize terminates on every input and every config: each iteration
\* of its loop raises DRLSyntaxError or strictly increases the scan index,
\* so that after at most len(expression) iterations the loop has ended with
\* a token list or an error.
C28_TokenizeTerminates ==
  /\ [][IterationAdvances]_vars
  /\ [](output.iterations <= Len(input.line) /\ EndsAsTokenize)
  /\ <>(pc \in {"returned", "raised"})

\* '1 a': three iterations (a number, a space, a name), then the return
C28_Witness ==
  /\ pc = "returned"
  /\ input.line = <<"1", " ", "a">>
  /\ output.iterations = 3
  /\ Len(output.tokens) = 2

(***************************************************************************)
(* Calls of names that are node tags, and NameError from a callable        *)
(* (SpecInterpret)                                                         *)
(***************************************************************************)
\* the line is a call of a name that is also the tag of an operator node
TagNamedCall ==
  /\ input.kind = "call"
  /\ input.name \in {NOT, OPERATOR, COMPARISON, LOGICAL}

\* the same call written with the name nofunc, which is registered nowhere
AsOrdinaryCall ==
  <<"n", "o", "f", "u", "n", "c">> \o SubSeq(input.line, Len(input.name) + 1, Len(input.line))

\* C29 as stated: a call written NOT(x), OPERATOR(a, b, c), COMPARISON(a, b,
\* c) or LOGICAL(a, b, c) is evaluated as a registry dispatch of that name,
\* never as a unary-not or binary-operator node: with the name unregistered
\* it ends as the call of any other unregistered name does, in the failure of
\* an argument or else in DRLNameError naming the function.
C29_TagNamedCallsAreDispatched ==
  pc = "interpreted" /\ TagNamedCall /\ UnknownName =>
    /\ output.exc = interpret(AsOrdinaryCall, InterpretContext, input.config,
                              FUNCTIONS).exc
    /\ output.exc = "DRLNameError" => output.names = input.name

\* LOGICAL('a', 1, 1) was evaluated as a LOGICAL node whose operator is 'a'
C29_Witness ==
  /\ pc = "interpreted"
  /\ UnknownName
  /\ input.line = <<"L", "O", "G", "I", "C", "A", "L", "(", "'", "a", "'", ",", " ", "1", ",", " ", "1", ")">>
  /\ output.exc = "DRLSyntaxError"

\* C30 as stated: DRLNameError leaves a call only when the name called is in
\* neither config.custom_functions nor FUNCTIONS; a failure raised inside a
\* registered callable is not reported as DRLNameError.
C30_NameErrorOnlyForUnknownNames ==
  pc = "interpreted" /\ input.kind = "call" /\ output.exc = "DRLNameError" =>
    UnknownName

\* nerr(1), nerr being registered as a callable that raises NameError
C30_Witness ==
  /\ pc = "interpreted"
  /\ input.line = <<"n", "e", "r", "r", "(", "1", ")">>
  /\ input.name \in DOMAIN FUNCTIONS
  /\ Len(output.log) = 1
  /\ output.log[1].callable = "raise_NameError"
  /\ output.exc = "DRLNameError"

====
